---- MODULE Spec2Model ----
(***************************************************************************)
(* Model of the sliprezi Stripe relay: the deferred-charge revision        *)
(* (src/server.js) and the immediate-authorization revision                *)
(* (src/unnamed/part_000).  Every request handler is a process in a slot;  *)
(* it advances one step per awaited call to the payment processor or to    *)
(* the reservation Ledger (the GAS endpoint), so handlers interleave at    *)
(* exactly the points where the JavaScript yields.                         *)
(***************************************************************************)
EXTENDS Integers, Sequences, FiniteSets, TLC

\* ------------------------------------------------------------- bounds ---
\* Amount inputs are rationals n / Scale, so that floor() has work to do.
Scale == 2
\* Processor objects (payment intents, checkout sessions) that may be created.
MaxObjects == 3
\* Requests received in one behaviour (they may overlap, one per slot).
MaxRequests == 2

\* ---------------------------------------------------------- value sets ---
Slots == {"h1", "h2"}
Rids == {"R1", "R2"}
Locs == {"Pier7"}
Accts == {"acct_A"}

\* Raw amount_cents values of a request body.  kind "num" is a JS number
\* n / Scale, "numstr" its decimal string; the others are the remaining
\* JSON / JS values a body can carry.
AmountNums == {0 - 1, 49 * Scale + 1, 50 * Scale + 1, 60 * Scale}
AmountInputs ==
    {[kind |-> k, n |-> 0] : k \in {"absent", "null", "empty", "text", "nan", "inf"}}
        \cup {[kind |-> "num", n |-> n] : n \in AmountNums}
        \cup {[kind |-> "numstr", n |-> 60 * Scale + 1]}

\* amount_cents: 60
Sixty == [kind |-> "num", n |-> 60 * Scale]

\* Outcomes of one fetch() to the Ledger: a 2xx answer (the write lands), a
\* non-2xx answer (r.ok false, nothing lands), or a rejected promise.
WriteOutcomes == {"ok", "http_error", "throw"}
\* Outcomes of fetchJSON(): JSON body, 404, empty body, non-JSON body, rejection.
ReadOutcomes == {"ok", "404", "empty", "nonjson", "throw"}
\* Outcomes of a first paymentIntents.create under an idempotency key.
ChargeOutcomes ==
    {"succeeded", "authentication_required", "requires_action", "card_declined",
     "api_error", "error_nomsg"}
ProcOutcomes == {"ok", "throw"}

\* ----------------------------------------------------------- variables ---
VARIABLES
    variant,        \* "deferred" (server.js) or "immediate" (part_000)
    webhookSecret,  \* STRIPE_WEBHOOK_SECRET is set
    gasUrl,         \* RESERVATIONS_GAS_URL is set
    ledger,         \* Ledger row of each reservation
    ledgerAcct,     \* Ledger's cached connected account of each location
    idem,           \* processor: idempotency key -> stored result
    pis,            \* processor: the payment intents created
    sessions,       \* processor: the checkout sessions created
    nextId,         \* processor: next object id
    feeBps,         \* APPLICATION_FEE_BPS
    feeFixed,       \* APPLICATION_FEE_CENTS_FIXED
    sis,            \* processor: the setup intents of completed setup checkouts
    customers,      \* processor: the customers created
    accounts,       \* processor: the connected accounts created
    req,            \* the request handled in each slot
    started         \* number of requests received so far

vars == <<variant, webhookSecret, gasUrl, ledger, ledgerAcct, idem, pis, sessions,
          nextId, feeBps, feeFixed, sis, customers, accounts, req, started>>

config == <<variant, webhookSecret, gasUrl, feeBps, feeFixed>>
processor == <<idem, pis, sessions, nextId, sis, customers, accounts>>

\* -------------------------------------------------------------- helpers ---
Max(a, b) == IF a >= b THEN a ELSE b

NoResp == [code |-> 0, status |-> "", error |-> "", pi |-> 0, url |-> 0, body |-> ""]
Resp(code, status, error, pi, url) ==
    [code |-> code, status |-> status, error |-> error, pi |-> pi, url |-> url, body |-> ""]
RespText(code, body) ==
    [code |-> code, status |-> "", error |-> "", pi |-> 0, url |-> 0, body |-> body]

Idle == [kind |-> "idle", pc |-> "idle", in |-> <<>>, loc |-> <<>>, calls |-> <<>>,
         resp |-> NoResp]

\* Number(x) of JavaScript on a body value: [fin |-> is finite, n |-> value * Scale].
ToNumber(x) ==
    CASE x.kind \in {"num", "numstr"} -> [fin |-> TRUE, n |-> x.n]
      [] x.kind \in {"null", "empty"} -> [fin |-> TRUE, n |-> 0]
      [] OTHER -> [fin |-> FALSE, n |-> 0]

\* Math.floor of n / Scale.
Floor(n) == n \div Scale

\* The amount validation shared by /create-checkout-session and /approve:
\* Number.isFinite(Number(a)) ? Math.max(50, Math.floor(Number(a))) : 0
ClampAmount(a) ==
    IF ToNumber(a).fin THEN Max(50, Floor(ToNumber(a).n)) ELSE 0

\* One outbound call, as recorded in the issuing request.
Call(sys, op, rid, arg) == [sys |-> sys, op |-> op, rid |-> rid, arg |-> arg]

LedgerWrites == {"setpreauth", "savesetup", "attachpi", "setacct"}

EmptyRow == [status |-> "none", customer_id |-> "", payment_method_id |-> "",
             account_id |-> "", payment_intent_id |-> 0]

\* What a completed setup intent holds: its customer and payment method.
SetupIntentStates ==
    {[customer |-> "cus_1", payment_method |-> "pm_1"],
     [customer |-> "", payment_method |-> "pm_1"],
     [customer |-> "cus_1", payment_method |-> ""]}

FullRow == [EmptyRow EXCEPT !.status = "card_on_file", !.customer_id = "cus_1",
                            !.payment_method_id = "pm_1"]

\* ----------------------------------------------------------------- Init ---
InitRows ==
    {EmptyRow,
     [EmptyRow EXCEPT !.status = "card_on_file", !.customer_id = "cus_1",
                      !.payment_method_id = "pm_1"],
     [EmptyRow EXCEPT !.status = "card_on_file", !.customer_id = "cus_1",
                      !.payment_method_id = "pm_1", !.account_id = "acct_A"],
     [EmptyRow EXCEPT !.status = "card_on_file", !.customer_id = "cus_1"]}

\* The processor holds nothing this system created and no request is in flight.
InitCommon ==
    /\ idem = <<>>
    /\ pis = {}
    /\ sessions = {}
    /\ nextId = 1
    /\ customers = {}
    /\ accounts = {}
    /\ req = [s \in Slots |-> Idle]
    /\ started = 0

\* ------------------------------------------------------ request plumbing ---
\* The handler in slot s moves to pc with new locals, having issued `calls`.
Step(s, pc, loc, calls) ==
    req' = [req EXCEPT ![s].pc = pc, ![s].loc = loc, ![s].calls = @ \o calls]

\* The handler in slot s sends its response and ends.
Finish(s, loc, resp) ==
    req' = [req EXCEPT ![s].pc = "done", ![s].loc = loc, ![s].resp = resp]

\* A request arrives in slot s, which is free or holds a finished request.
\* Slots are interchangeable, so the first request is put in h1.
Accept(s) ==
    /\ req[s].pc \in {"idle", "done"}
    /\ s = "h2" => req["h1"].pc # "idle"
    /\ started < MaxRequests
    /\ started' = started + 1

Begin(s, kind, in, pc, loc, calls) ==
    req' = [req EXCEPT ![s] = [kind |-> kind, pc |-> pc, in |-> in, loc |-> loc,
                               calls |-> calls, resp |-> NoResp]]

BeginDone(s, kind, in, loc, resp) ==
    req' = [req EXCEPT ![s] = [kind |-> kind, pc |-> "done", in |-> in, loc |-> loc,
                               calls |-> <<>>, resp |-> resp]]

\* --------------------------------------------------------------- Ledger ---
\* setPreauthStatus: the GAS action setpreauth, when the fetch is answered 2xx.
\* Variant of LedgerSetPreauth that keeps a status that ends the lifecycle.
LedgerSetPreauthForward(l, rid, status) ==
    IF l[rid].status \in {"captured", "paid", "released"} THEN l
    ELSE [l EXCEPT ![rid].status = status]

LedgerSetPreauth(l, rid, status) == [l EXCEPT ![rid].status = status]

\* saveSetupForReservation: the GAS action savesetup, answered 2xx.
\* Variant of LedgerSaveSetup that also resets the status of the row.
LedgerSaveSetupFresh(l, rid, customerId, paymentMethodId, connectedAccountId) ==
    [l EXCEPT ![rid].customer_id = customerId,
              ![rid].payment_method_id = paymentMethodId,
              ![rid].account_id = connectedAccountId,
              ![rid].status = "none"]

LedgerSaveSetup(l, rid, customerId, paymentMethodId, connectedAccountId) ==
    [l EXCEPT ![rid].customer_id = customerId,
              ![rid].payment_method_id = paymentMethodId,
              ![rid].account_id = connectedAccountId]

\* Variant of AttachStatus that always sends the default.
AttachStatusDefault(preauthStatus) == "requires_capture"

\* preauth_status: preauthStatus || "requires_capture"
AttachStatus(preauthStatus) ==
    IF preauthStatus # "" THEN preauthStatus ELSE "requires_capture"

\* attachPIToReservation: the GAS action attachpi, answered 2xx.
LedgerAttachPI(l, rid, piId, status) ==
    [l EXCEPT ![rid].payment_intent_id = piId, ![rid].status = status]

\* Variant of computeApplicationFee that charges the rate or else the fixed fee.
FeeRateOrFixed(amountCents) ==
    IF feeBps > 0 THEN (amountCents * feeBps) \div 10000
    ELSE IF feeFixed > 0 THEN feeFixed ELSE 0

\* computeApplicationFee(amountCents)
computeApplicationFee(amountCents) ==
    (IF feeBps > 0 THEN (amountCents * feeBps) \div 10000 ELSE 0)
        + (IF feeFixed > 0 THEN feeFixed ELSE 0)

\* A checkout session at the processor: its mode, metadata.reservation_id (rid),
\* client_reference_id, the reservation_id in the metadata of the intent it
\* will create (intent_rid), its payment intent (one it completes, or the one
\* its checkout made), the customer, metadata.connected_account_id, line-item
\* amount, and the setup intent its checkout made.
NoSession == [id |-> 0, mode |-> "", rid |-> "", client_reference_id |-> "",
              intent_rid |-> "", payment_intent |-> 0, customer |-> "",
              account_id |-> "", amount |-> 0, location |-> "", setup_intent |-> ""]

\* ------------------------------------------------------ /stripe-webhook ---
\* a || b of JavaScript on strings
Or(a, b) == IF a # "" THEN a ELSE b

EventTypes ==
    {"checkout.session.completed", "payment_intent.amount_capturable_updated",
     "payment_intent.canceled", "payment_intent.succeeded",
     "payment_intent.payment_failed", "charge.refunded"}

NoEvent == [type |-> "", mode |-> "", client_reference_id |-> "", meta_rid |-> "",
            setup_intent |-> "", payment_intent |-> 0, customer |-> "",
            meta_acct |-> "", id |-> 0]

\* <<client_reference_id, metadata.reservation_id>> of a checkout session:
\* neither, the metadata only, or both (and then different).
RefPairs == {<<"", "">>, <<"", "R2">>, <<"R1", "R2">>}

\* event.data.object of a checkout.session.completed notification
SessionEvents ==
    {[NoEvent EXCEPT !.type = "checkout.session.completed", !.mode = "setup",
                     !.client_reference_id = p[1], !.meta_rid = p[2],
                     !.setup_intent = i[1], !.customer = i[2]] :
        p \in RefPairs, i \in {<<"", "">>, <<"si_1", "">>, <<"si_1", "cus_2">>}}
    \cup
    {[NoEvent EXCEPT !.type = "checkout.session.completed", !.mode = "payment",
                     !.client_reference_id = p[1], !.meta_rid = p[2],
                     !.payment_intent = i] :
        p \in RefPairs, i \in {0, 1}}

\* event.data.object of every other notification: a payment intent (or, for
\* an event kind the handlers do not know, some other object)
IntentEvents ==
    {[NoEvent EXCEPT !.type = t, !.meta_rid = r, !.id = 1] :
        t \in EventTypes \ {"checkout.session.completed"}, r \in {"", "R1"}}

Events == SessionEvents \cup IntentEvents

\* stripe-signature header: one that verifies, or one that does not (a wrong,
\* stale or absent header: constructEvent throws alike)
Signatures == {"valid", "invalid"}

WebhookLoc == [reservationId |-> "", status |-> "", setupIntentId |-> "", piId |-> 0,
               customerId |-> "", paymentMethodId |-> "", connectedAccountId |-> ""]

\* The first call the switch of server.js (82-121) makes for a verified event:
\* op "none" when it makes none.
DispatchDeferred(ev) ==
    CASE ev.type = "checkout.session.completed" ->
            LET reservationId == Or(ev.client_reference_id, ev.meta_rid)
            IN  IF ev.mode = "setup" /\ reservationId # "" /\ ev.setup_intent # ""
                THEN [WebhookLoc EXCEPT !.reservationId = reservationId,
                                        !.setupIntentId = ev.setup_intent,
                                        !.customerId = Or(ev.customer, ev.client_reference_id),
                                        !.connectedAccountId = ev.meta_acct,
                                        !.status = "card_on_file"]
                ELSE WebhookLoc
      [] ev.type = "payment_intent.succeeded" ->
            [WebhookLoc EXCEPT !.reservationId = ev.meta_rid, !.status = "paid"]
      [] ev.type = "payment_intent.payment_failed" ->
            [WebhookLoc EXCEPT !.reservationId = ev.meta_rid, !.status = "failed"]
      [] OTHER -> WebhookLoc

\* The same for the switch of part_000 (74-117).
DispatchImmediate(ev) ==
    CASE ev.type = "checkout.session.completed" ->
            LET reservationId == Or(ev.client_reference_id, ev.meta_rid)
            IN  IF reservationId # "" /\ ev.payment_intent # 0
                THEN [WebhookLoc EXCEPT !.reservationId = reservationId,
                                        !.piId = ev.payment_intent,
                                        !.status = "requires_capture"]
                ELSE WebhookLoc
      [] ev.type = "payment_intent.amount_capturable_updated" ->
            [WebhookLoc EXCEPT !.reservationId = ev.meta_rid, !.piId = ev.id,
                               !.status = "authorized"]
      [] ev.type = "payment_intent.canceled" ->
            [WebhookLoc EXCEPT !.reservationId = ev.meta_rid, !.status = "released"]
      [] ev.type = "payment_intent.succeeded" ->
            [WebhookLoc EXCEPT !.reservationId = ev.meta_rid, !.status = "captured"]
      [] ev.type = "payment_intent.payment_failed" ->
            [WebhookLoc EXCEPT !.reservationId = ev.meta_rid, !.status = "failed"]
      [] OTHER -> WebhookLoc

\* Variant of Dispatch that uses the switch of part_000 in both revisions.
DispatchOneWay(ev) == DispatchImmediate(ev)

\* The switch of the active revision.
Dispatch(ev) == IF variant = "deferred" THEN DispatchDeferred(ev) ELSE DispatchImmediate(ev)

\* Variant of SignatureVerifies that accepts every signature header.
SignatureUnchecked(sig) == TRUE

\* stripe.webhooks.constructEvent(req.body, sig, STRIPE_WEBHOOK_SECRET) returns
\* (does not throw).
SignatureVerifies(sig) == sig = "valid"

\* Variant of SecretConfigured that treats the secret as always set.
SecretAssumed == TRUE

\* !STRIPE_WEBHOOK_SECRET is false
SecretConfigured == webhookSecret

Ok200 == RespText(200, "ok")

\* Variant of WebhookCaught that lets the processing error reach the response.
WebhookRethrown == RespText(500, "error")

\* catch (err) { console.error(...) } and then res.status(200).send("ok")
WebhookCaught == Ok200

\* setPreauthStatus / attachPIToReservation reject: on a rejected fetch, and in
\* part_000 also on a non-2xx answer (server.js 535-544 does not look at r.ok).
WriteThrows(o) == o = "throw" \/ (variant = "immediate" /\ o = "http_error")

\* Variant of Correlated that does not look at the reservation id.
CorrelatedAlways(loc) == TRUE

\* if (reservationId ...): the switch derived a reservation id for the event
Correlated(loc) == loc.reservationId # ""

\* POST /stripe-webhook with one of `events`, up to its first await
\* (server.js 67-121, part_000 59-117).
WebhookEvent(s, events) ==
    /\ Accept(s)
    /\ \E ev \in events, sig \in Signatures :
        LET in == [event |-> ev, sig |-> sig]
            loc == Dispatch(ev)
            rid == loc.reservationId
        IN  IF ~SecretConfigured
            THEN BeginDone(s, "webhook", in, WebhookLoc, RespText(200, "ignored"))
            ELSE IF ~SignatureVerifies(sig)
            THEN BeginDone(s, "webhook", in, WebhookLoc, RespText(400, "Webhook Error"))
            ELSE IF ~Correlated(loc)
            THEN BeginDone(s, "webhook", in, loc, Ok200)
            ELSE IF loc.setupIntentId # ""
            THEN Begin(s, "webhook", in, "retrieve_si", loc,
                       <<Call("processor", "setupIntents.retrieve", rid, loc.setupIntentId)>>)
            ELSE IF ~gasUrl
            THEN BeginDone(s, "webhook", in, loc, Ok200)
            ELSE IF loc.piId # 0
            THEN Begin(s, "webhook", in, "attachpi", loc,
                       <<Call("ledger", "attachpi", rid,
                              <<loc.piId, AttachStatus(loc.status)>>)>>)
            ELSE Begin(s, "webhook", in, "setpreauth", loc,
                       <<Call("ledger", "setpreauth", rid, loc.status)>>)
    /\ UNCHANGED <<config, ledger, ledgerAcct, processor>>

\* stripe.setupIntents.retrieve answers (server.js 92-99).
WebhookRetrieveSI(s) ==
    /\ req[s].kind = "webhook" /\ req[s].pc = "retrieve_si"
    /\ \E o \in ProcOutcomes :
        LET si == sis[req[s].loc.setupIntentId]
            loc == [req[s].loc EXCEPT !.customerId = Or(si.customer, @),
                                      !.paymentMethodId = si.payment_method]
        IN  IF o = "throw"
            THEN Finish(s, req[s].loc, WebhookCaught)
            ELSE IF ~gasUrl
            THEN Finish(s, loc, Ok200)
            ELSE Step(s, "savesetup", loc,
                      <<Call("ledger", "savesetup", loc.reservationId,
                             <<loc.customerId, loc.paymentMethodId, loc.connectedAccountId>>)>>)
    /\ UNCHANGED <<config, ledger, ledgerAcct, processor, started>>

\* Variant of SaveSetupReturns that does not look at r.ok.
SaveSetupIgnoresStatus(o) == o # "throw"

\* saveSetupForReservation returns: the fetch resolved and r.ok holds
\* (if (!r.ok) throw, server.js 516-517).
SaveSetupReturns(o) == o = "ok"

\* The savesetup fetch answers (server.js 94-101, 516-517).
WebhookSaveSetup(s) ==
    /\ req[s].kind = "webhook" /\ req[s].pc = "savesetup"
    /\ \E o \in WriteOutcomes :
        LET loc == req[s].loc
        IN  /\ ledger' = IF o = "ok"
                         THEN LedgerSaveSetup(ledger, loc.reservationId, loc.customerId,
                                              loc.paymentMethodId, loc.connectedAccountId)
                         ELSE ledger
            /\ IF SaveSetupReturns(o)
               THEN Step(s, "setpreauth", loc,
                         <<Call("ledger", "setpreauth", loc.reservationId, loc.status)>>)
               ELSE Finish(s, loc, WebhookCaught)
    /\ UNCHANGED <<config, ledgerAcct, processor, started>>

\* The setpreauth fetch answers; whatever it did, the handler answers 200.
WebhookSetPreauth(s) ==
    /\ req[s].kind = "webhook" /\ req[s].pc = "setpreauth"
    /\ \E o \in WriteOutcomes :
        /\ ledger' = IF o = "ok"
                     THEN LedgerSetPreauth(ledger, req[s].loc.reservationId, req[s].loc.status)
                     ELSE ledger
        /\ Finish(s, req[s].loc, IF WriteThrows(o) THEN WebhookCaught ELSE Ok200)
    /\ UNCHANGED <<config, ledgerAcct, processor, started>>

\* The attachpi fetch answers (part_000 81, 91, 298-308).
WebhookAttachPI(s) ==
    /\ req[s].kind = "webhook" /\ req[s].pc = "attachpi"
    /\ \E o \in WriteOutcomes :
        /\ ledger' = IF o = "ok"
                     THEN LedgerAttachPI(ledger, req[s].loc.reservationId, req[s].loc.piId,
                                         AttachStatus(req[s].loc.status))
                     ELSE ledger
        /\ Finish(s, req[s].loc, IF o = "ok" THEN Ok200 ELSE WebhookCaught)
    /\ UNCHANGED <<config, ledgerAcct, processor, started>>

WebhookStart(s) == WebhookEvent(s, Events)

Webhook(s) ==
    \/ WebhookStart(s)
    \/ WebhookRetrieveSI(s)
    \/ WebhookSaveSetup(s)
    \/ WebhookSetPreauth(s)
    \/ WebhookAttachPI(s)

\* ------------------------------------------------------------- /approve ---
NoResult == [ok |-> FALSE, pi |-> 0, code |-> "", pistatus |-> "", message |-> ""]

\* What a rejected fetch() throws: an Error with a message and nothing else.
FetchError == [ok |-> FALSE, pi |-> 0, code |-> "", pistatus |-> "", message |-> "fetch failed"]

\* Locals of the /approve handler: amount, payinfo (unread, none when the
\* lookup gave null, else row and its fields), connectedAccountId,
\* applicationFeeAmount, the result of
\* paymentIntents.create (res), the caught error (e), the session; and how the
\* fetch of the paid / payment_action_required write (mirror) and of the failed
\* write (fw) ended.
ApproveLoc == [amount |-> 0, payinfo |-> "unread", customer_id |-> "",
               payment_method_id |-> "", account_id |-> "", applicationFeeAmount |-> 0,
               charged |-> FALSE,
               res |-> NoResult, e |-> NoResult, session |-> 0, mirror |-> "", fw |-> ""]

\* Variant of PayinfoMissing that forgets the payment method.
PayinfoMissingCustomerOnly(row) == row.customer_id = ""

\* !payinfo?.customer_id || !payinfo?.payment_method_id, payinfo being a row
PayinfoMissing(row) == row.customer_id = "" \/ row.payment_method_id = ""

\* Result of paymentIntents.create for outcome o creating object id.
\* An error carries e.code, e.message and, for card errors, e.payment_intent.
ChargeResult(o, id) ==
    CASE o = "succeeded" ->
            [ok |-> TRUE, pi |-> id, code |-> "", pistatus |-> "succeeded", message |-> ""]
      [] o = "authentication_required" ->
            [ok |-> FALSE, pi |-> id, code |-> "authentication_required",
             pistatus |-> "requires_payment_method", message |-> "authentication required"]
      [] o = "requires_action" ->
            [ok |-> FALSE, pi |-> id, code |-> "card_error",
             pistatus |-> "requires_action", message |-> "action required"]
      [] o = "card_declined" ->
            [ok |-> FALSE, pi |-> id, code |-> "card_declined",
             pistatus |-> "requires_payment_method", message |-> "card declined"]
      [] o = "api_error" ->
            [ok |-> FALSE, pi |-> 0, code |-> "api_error", pistatus |-> "",
             message |-> "api connection error"]
      [] OTHER ->
            [ok |-> FALSE, pi |-> 0, code |-> "", pistatus |-> "", message |-> ""]

\* Variant of ApproveKey that leaves the amount out.
ApproveKeyOfReservation(s) == <<"approve", req[s].in.reservation_id, 0>>

\* Variant of ApproveKey that is fresh for every request.
ApproveKeyPerRequest(s) == <<"approve", s, req[s].loc.amount>>

\* idempotencyKey: `approve_${reservation_id}_${amount}`
ApproveKey(s) == <<"approve", req[s].in.reservation_id, req[s].loc.amount>>

\* idempotencyKey: `sca_${reservation_id}_${amount}`
ScaKey(s) == <<"sca", req[s].in.reservation_id, req[s].loc.amount>>

\* Variant of IsActionRequired that takes every error carrying a payment intent.
AnyErrorWithIntent(e) == e.pi # 0

\* catch (e): pi && (e.code === "authentication_required" || pi.status === "requires_action")
IsActionRequired(e) ==
    e.pi # 0 /\ (e.code = "authentication_required" \/ e.pistatus = "requires_action")

\* e.message || "charge_failed"
FailureMessage(msg) == IF msg # "" THEN msg ELSE "charge_failed"

MissingPayinfo == Resp(400, "", "missing_customer_or_payment_method", 0, 0)
ApproveFailed == Resp(500, "", "approve_failed", 0, 0)

\* POST /approve, up to the first await (server.js 336-347).
ApproveStart(s, bodies) ==
    /\ Accept(s)
    /\ variant = "deferred"
    /\ \E b \in bodies :
        LET rid == b[1]
            in == [reservation_id |-> rid, amount_cents |-> b[2], location |-> b[3]]
            amount == ClampAmount(b[2])
        IN  IF rid = ""
            THEN BeginDone(s, "approve", in, ApproveLoc,
                           Resp(400, "", "missing reservation_id", 0, 0))
            ELSE IF amount = 0
            THEN BeginDone(s, "approve", in, ApproveLoc,
                           Resp(400, "", "invalid amount_cents", 0, 0))
            ELSE IF ~gasUrl
            THEN BeginDone(s, "approve", in,
                           [ApproveLoc EXCEPT !.amount = amount, !.payinfo = "none"],
                           MissingPayinfo)
            ELSE Begin(s, "approve", in, "getpayinfo",
                       [ApproveLoc EXCEPT !.amount = amount],
                       <<Call("ledger", "getpayinfo", rid, "")>>)
    /\ UNCHANGED <<config, ledger, ledgerAcct, processor>>

ChargeCall(s) ==
    Call("processor", "paymentIntents.create", req[s].in.reservation_id, req[s].loc.amount)

\* connectedAccountId is known: compute the fee and issue the charge
\* (server.js 353-371).
ToCharge(s, loc) ==
    Step(s, "charge",
         [loc EXCEPT !.applicationFeeAmount = computeApplicationFee(loc.amount)],
         <<ChargeCall(s)>>)

\* getPaymentInfoForReservation answers (server.js 347-352).
ApprovePayinfo(s) ==
    /\ req[s].kind = "approve" /\ req[s].pc = "getpayinfo"
    /\ \E o \in ReadOutcomes :
        LET rid == req[s].in.reservation_id
            row == ledger[rid]
            loc == [req[s].loc EXCEPT !.payinfo = "row",
                                      !.customer_id = row.customer_id,
                                      !.payment_method_id = row.payment_method_id,
                                      !.account_id = row.account_id]
            none == [req[s].loc EXCEPT !.payinfo = "none"]
        IN  CASE o = "throw" -> Finish(s, req[s].loc, ApproveFailed)
              [] o \in {"404", "empty", "nonjson"} ->
                    Finish(s, none, MissingPayinfo)
              [] OTHER ->
                    IF PayinfoMissing(row)
                    THEN Finish(s, loc, MissingPayinfo)
                    ELSE IF row.account_id = "" /\ req[s].in.location # ""
                    THEN Step(s, "getacct", loc,
                              <<Call("ledger", "getacct", req[s].in.location, "")>>)
                    ELSE ToCharge(s, loc)
    /\ UNCHANGED <<config, ledger, ledgerAcct, processor, started>>

\* getStripeAccountIdForLocation answers; any failure reads as "no account".
ApproveGetAcct(s) ==
    /\ req[s].kind = "approve" /\ req[s].pc = "getacct"
    /\ \E o \in ReadOutcomes :
        ToCharge(s, [req[s].loc EXCEPT !.account_id =
                        IF o = "ok" THEN ledgerAcct[req[s].in.location] ELSE ""])
    /\ UNCHANGED <<config, ledger, ledgerAcct, processor, started>>

\* Variant of FeeSent that sends the fee whenever an account is attached.
FeeSentWithAccount(acct, fee) == acct # ""

\* application_fee_amount is defined: connectedAccountId && applicationFeeAmount > 0
FeeSent(acct, fee) == acct # "" /\ fee > 0

\* The payment intent paymentIntents.create makes for the request in slot s.
NewPI(s, id, status) ==
    LET acct == req[s].loc.account_id
        fee == req[s].loc.applicationFeeAmount
    IN  [id |-> id, rid |-> req[s].in.reservation_id, amount |-> req[s].loc.amount,
         customer |-> req[s].loc.customer_id,
         payment_method |-> req[s].loc.payment_method_id,
         status |-> status, destination |-> acct,
         fee_sent |-> FeeSent(acct, fee),
         fee |-> IF FeeSent(acct, fee) THEN fee ELSE 0]

\* stripe.paymentIntents.create(..., { idempotencyKey }) answers (server.js 357-402).
ApproveCharge(s) ==
    /\ req[s].kind = "approve" /\ req[s].pc = "charge"
    /\ \E o \in ChargeOutcomes :
        LET key == ApproveKey(s)
            replay == key \in DOMAIN idem
            res == IF replay THEN idem[key] ELSE ChargeResult(o, nextId)
            made == ~replay /\ res.pi # 0
            loc == [req[s].loc EXCEPT !.charged = TRUE, !.res = res,
                                      !.e = IF res.ok THEN NoResult ELSE res]
            rid == req[s].in.reservation_id
        IN  /\ made => nextId <= MaxObjects
            /\ IF made
               THEN /\ pis' = pis \cup {NewPI(s, nextId, res.pistatus)}
                    /\ idem' = idem @@ (key :> res)
                    /\ nextId' = nextId + 1
               ELSE UNCHANGED <<pis, idem, nextId>>
            /\ IF res.ok
               THEN Step(s, "write_paid", loc, <<Call("ledger", "setpreauth", rid, "paid")>>)
               ELSE IF IsActionRequired(res)
               THEN Step(s, "sca_session", loc,
                         <<Call("processor", "checkout.sessions.create", rid, res.pi)>>)
               ELSE Step(s, "write_failed", loc,
                         <<Call("ledger", "setpreauth", rid, "failed")>>)
    /\ UNCHANGED <<config, ledger, ledgerAcct, sessions, sis, customers, accounts, started>>

\* await setPreauthStatus(reservation_id, "paid") answers (server.js 374-375);
\* a rejection lands in the catch block of the charge (376-402).
ApproveWritePaid(s) ==
    /\ req[s].kind = "approve" /\ req[s].pc = "write_paid"
    /\ \E o \in WriteOutcomes :
        LET rid == req[s].in.reservation_id
        IN  /\ ledger' = IF o = "ok" THEN LedgerSetPreauth(ledger, rid, "paid") ELSE ledger
            /\ IF o = "throw"
               THEN Step(s, "write_failed",
                         [req[s].loc EXCEPT !.e = FetchError, !.mirror = o],
                         <<Call("ledger", "setpreauth", rid, "failed")>>)
               ELSE Finish(s, [req[s].loc EXCEPT !.mirror = o],
                           Resp(200, "succeeded", "", req[s].loc.res.pi, 0))
    /\ UNCHANGED <<config, ledgerAcct, processor, started>>

\* stripe.checkout.sessions.create for the SCA fallback answers (server.js 389-396).
ApproveScaSession(s) ==
    /\ req[s].kind = "approve" /\ req[s].pc = "sca_session"
    /\ \E o \in ProcOutcomes :
        LET key == ScaKey(s)
            replay == key \in DOMAIN idem
            rid == req[s].in.reservation_id
            id == IF replay THEN idem[key].pi ELSE nextId
        IN  IF o = "throw"
            THEN /\ Finish(s, req[s].loc, ApproveFailed)
                 /\ UNCHANGED processor
            ELSE /\ ~replay => nextId <= MaxObjects
                 /\ IF replay
                    THEN UNCHANGED processor
                    ELSE /\ sessions' = sessions \cup
                                {[NoSession EXCEPT !.id = nextId, !.mode = "payment",
                                                   !.payment_intent = req[s].loc.e.pi]}
                         /\ idem' = idem @@ (key :> [NoResult EXCEPT !.ok = TRUE, !.pi = nextId])
                         /\ nextId' = nextId + 1
                         /\ UNCHANGED <<pis, sis, customers, accounts>>
                 /\ Step(s, "write_action", [req[s].loc EXCEPT !.session = id],
                         <<Call("ledger", "setpreauth", rid, "payment_action_required")>>)
    /\ UNCHANGED <<config, ledger, ledgerAcct, started>>

\* await setPreauthStatus(reservation_id, "payment_action_required") answers (396-397);
\* a rejection leaves the catch block and reaches the outer catch (403-406).
ApproveWriteAction(s) ==
    /\ req[s].kind = "approve" /\ req[s].pc = "write_action"
    /\ \E o \in WriteOutcomes :
        LET rid == req[s].in.reservation_id
        IN  /\ ledger' = IF o = "ok"
                         THEN LedgerSetPreauth(ledger, rid, "payment_action_required")
                         ELSE ledger
            /\ IF o = "throw"
               THEN Finish(s, [req[s].loc EXCEPT !.mirror = o], ApproveFailed)
               ELSE Finish(s, [req[s].loc EXCEPT !.mirror = o],
                           Resp(200, "action_required", "", 0, req[s].loc.session))
    /\ UNCHANGED <<config, ledgerAcct, processor, started>>

\* await setPreauthStatus(reservation_id, "failed").catch(()=>{}) answers (400-401).
ApproveWriteFailed(s) ==
    /\ req[s].kind = "approve" /\ req[s].pc = "write_failed"
    /\ \E o \in WriteOutcomes :
        LET rid == req[s].in.reservation_id
        IN  /\ ledger' = IF o = "ok" THEN LedgerSetPreauth(ledger, rid, "failed") ELSE ledger
            /\ Finish(s, [req[s].loc EXCEPT !.fw = o],
                      Resp(400, "failed", FailureMessage(req[s].loc.e.message), 0, 0))
    /\ UNCHANGED <<config, ledgerAcct, processor, started>>

\* ------------------------------- /create-checkout-session (part_000) ---
CreateLoc == [amount |-> 0, session |-> 0]

\* idempotencyKey: `checkout_${reservation_id}`
CheckoutKey(rid) == <<"checkout", rid, 0>>

\* idempotencyKey: `setup_${reservation_id}`
SetupKey(rid) == <<"setup", rid, 0>>

\* Variant of CreateKey that is fresh for every request.
CreateKeyPerRequest(s) == <<"create", s, 0>>

\* The idempotency key of the revision's sessions.create, for a request with a
\* reservation_id.
CreateKey(s) ==
    IF variant = "deferred" THEN SetupKey(req[s].in.reservation_id)
    ELSE CheckoutKey(req[s].in.reservation_id)

\* POST /create-checkout-session of the immediate-authorization revision, up
\* to its await (part_000 139-174).
CreateStartImmediate(s, rids, amounts, locs, emails) ==
    /\ Accept(s)
    /\ variant = "immediate"
    /\ \E rid \in rids, a \in amounts, l \in locs, m \in emails :
        LET in == [reservation_id |-> rid, amount_cents |-> a, location |-> l, email |-> m]
            amount == ClampAmount(a)
        IN  IF amount = 0
            THEN BeginDone(s, "create", in, CreateLoc,
                           Resp(400, "", "Invalid amount_cents", 0, 0))
            ELSE Begin(s, "create", in, "create_session",
                       [CreateLoc EXCEPT !.amount = amount],
                       <<Call("processor", "checkout.sessions.create", rid, amount)>>)
    /\ UNCHANGED <<config, ledger, ledgerAcct, processor>>

\* stripe.checkout.sessions.create(..., options) answers (part_000 174-203).
CreateSessionImmediate(s) ==
    /\ req[s].kind = "create" /\ req[s].pc = "create_session"
    /\ variant = "immediate"
    /\ \E o \in ProcOutcomes :
        LET rid == req[s].in.reservation_id
            key == CreateKey(s)
            replay == rid # "" /\ key \in DOMAIN idem
            id == IF replay THEN idem[key].pi ELSE nextId
        IN  IF o = "throw"
            THEN /\ Finish(s, req[s].loc, Resp(500, "", "create_session_failed", 0, 0))
                 /\ UNCHANGED processor
            ELSE /\ ~replay => nextId <= MaxObjects
                 /\ IF replay
                    THEN UNCHANGED processor
                    ELSE /\ sessions' = sessions \cup
                                {[NoSession EXCEPT !.id = nextId, !.mode = "payment",
                                                   !.client_reference_id = rid,
                                                   !.intent_rid = rid,
                                                   !.amount = req[s].loc.amount,
                                                   !.location = req[s].in.location]}
                         /\ idem' = IF rid # ""
                                    THEN idem @@ (key :> [NoResult EXCEPT !.ok = TRUE,
                                                                          !.pi = nextId])
                                    ELSE idem
                         /\ nextId' = nextId + 1
                         /\ UNCHANGED <<pis, sis, customers, accounts>>
                 /\ Finish(s, [req[s].loc EXCEPT !.session = id], Resp(200, "", "", 0, id))
    /\ UNCHANGED <<config, ledger, ledgerAcct, started>>

\* -------------------------------- /create-checkout-session (server.js) ---
\* Locals: connectedAccountId, customer.id, the session created.
SetupLoc == [account_id |-> "", customer |-> "", session |-> 0]

SetupFailed == Resp(500, "", "create_setup_session_failed", 0, 0)

\* The id of the customer that is the processor's n-th object.
CustomerId(n) == "cus_n" \o ToString(n)

ListCustomersCall(email) == Call("processor", "customers.list", "", email)

\* POST /create-checkout-session of the deferred-charge revision, up to its
\* first await (server.js 208-239); bodies are <<reservation_id, location, email>>.
CreateStartDeferred(s, bodies) ==
    /\ Accept(s)
    /\ variant = "deferred"
    /\ \E b \in bodies :
        LET in == [reservation_id |-> b[1], location |-> b[2], email |-> b[3]]
        IN  IF in.email = ""
            THEN BeginDone(s, "setup", in, SetupLoc, Resp(400, "", "email_required", 0, 0))
            ELSE IF in.location = ""
            THEN BeginDone(s, "setup", in, SetupLoc, Resp(400, "", "location_required", 0, 0))
            ELSE IF gasUrl
            THEN Begin(s, "setup", in, "getacct", SetupLoc,
                       <<Call("ledger", "getacct", in.location, "")>>)
            ELSE Begin(s, "setup", in, "list_customers", SetupLoc,
                       <<ListCustomersCall(in.email)>>)
    /\ UNCHANGED <<config, ledger, ledgerAcct, processor>>

\* getStripeAccountIdForLocation answers (server.js 236-239).
CreateGetAcct(s) ==
    /\ req[s].kind = "setup" /\ req[s].pc = "getacct"
    /\ \E o \in ReadOutcomes :
        Step(s, "list_customers",
             [req[s].loc EXCEPT !.account_id =
                  IF o = "ok" THEN ledgerAcct[req[s].in.location] ELSE ""],
             <<ListCustomersCall(req[s].in.email)>>)
    /\ UNCHANGED <<config, ledger, ledgerAcct, processor, started>>

SetupSessionCall(s) ==
    Call("processor", "checkout.sessions.create", req[s].in.reservation_id, 0)

\* Variant of CustomersFound that lists customers of any email.
CustomersOfAnyEmail(email) == customers

\* What stripe.customers.list({ email, limit: 1 }) can return as data[0].
CustomersFound(email) == {c \in customers : c.email = email}

\* stripe.customers.list({ email, limit: 1 }) answers (server.js 497-499).
CreateListCustomers(s) ==
    /\ req[s].kind = "setup" /\ req[s].pc = "list_customers"
    /\ \E o \in ProcOutcomes :
        LET found == CustomersFound(req[s].in.email)
        IN  IF o = "throw"
            THEN Finish(s, req[s].loc, SetupFailed)
            ELSE IF found # {}
            THEN \E c \in found :
                    Step(s, "create_session", [req[s].loc EXCEPT !.customer = c.id],
                         <<SetupSessionCall(s)>>)
            ELSE Step(s, "create_customer", req[s].loc,
                      <<Call("processor", "customers.create", "", req[s].in.email)>>)
    /\ UNCHANGED <<config, ledger, ledgerAcct, processor, started>>

\* stripe.customers.create({ email }) answers (server.js 499).
CreateCustomer(s) ==
    /\ req[s].kind = "setup" /\ req[s].pc = "create_customer"
    /\ \E o \in ProcOutcomes :
        IF o = "throw"
        THEN /\ Finish(s, req[s].loc, SetupFailed)
             /\ UNCHANGED processor
        ELSE /\ nextId <= MaxObjects
             /\ customers' = customers \cup
                    {[id |-> CustomerId(nextId), email |-> req[s].in.email]}
             /\ nextId' = nextId + 1
             /\ Step(s, "create_session",
                     [req[s].loc EXCEPT !.customer = CustomerId(nextId)],
                     <<SetupSessionCall(s)>>)
             /\ UNCHANGED <<idem, pis, sessions, sis, accounts>>
    /\ UNCHANGED <<config, ledger, ledgerAcct, started>>

\* stripe.checkout.sessions.create({ mode: "setup", ... }, options) answers
\* (server.js 242-272).
CreateSessionDeferred(s) ==
    /\ req[s].kind = "setup" /\ req[s].pc = "create_session"
    /\ \E o \in ProcOutcomes :
        LET rid == req[s].in.reservation_id
            key == CreateKey(s)
            replay == rid # "" /\ key \in DOMAIN idem
            id == IF replay THEN idem[key].pi ELSE nextId
        IN  IF o = "throw"
            THEN /\ Finish(s, req[s].loc, SetupFailed)
                 /\ UNCHANGED processor
            ELSE /\ ~replay => nextId <= MaxObjects
                 /\ IF replay
                    THEN UNCHANGED processor
                    ELSE /\ sessions' = sessions \cup
                                {[NoSession EXCEPT !.id = nextId, !.mode = "setup",
                                                   !.rid = rid,
                                                   !.client_reference_id = rid,
                                                   !.intent_rid = rid,
                                                   !.customer = req[s].loc.customer,
                                                   !.account_id = req[s].loc.account_id,
                                                   !.location = req[s].in.location]}
                         /\ idem' = IF rid # ""
                                    THEN idem @@ (key :> [NoResult EXCEPT !.ok = TRUE,
                                                                          !.pi = nextId])
                                    ELSE idem
                         /\ nextId' = nextId + 1
                         /\ UNCHANGED <<pis, sis, customers, accounts>>
                 /\ Finish(s, [req[s].loc EXCEPT !.session = id], Resp(200, "", "", 0, id))
    /\ UNCHANGED <<config, ledger, ledgerAcct, started>>

\* ---------------------------------------------------- /checkout-session ---
\* Locals of the confirmation-page poll: out.reservation_id and what it is
\* about to store.
PollLoc == [reservationId |-> "", status |-> "", setupIntentId |-> "", piId |-> 0,
            customerId |-> "", paymentMethodId |-> "", connectedAccountId |-> ""]

LookupFailed == Resp(500, "", "lookup_failed", 0, 0)

\* res.json(out): the session id, the reservation id and the intent status.
PollOut(sess, rid, piStatus) ==
    [Resp(200, piStatus, "", sess.payment_intent, sess.id) EXCEPT !.body = rid]

\* GET /checkout-session up to its first await (server.js 276-283,
\* part_000 207-214); session id 0 is a missing session_id.
PollStart(s, ids) ==
    /\ Accept(s)
    /\ \E id \in ids :
        IF id = 0
        THEN BeginDone(s, "poll", [session_id |-> id], PollLoc,
                       Resp(400, "", "missing_session_id", 0, 0))
        ELSE Begin(s, "poll", [session_id |-> id], "retrieve_session", PollLoc,
                   <<Call("processor", "checkout.sessions.retrieve", "", id)>>)
    /\ UNCHANGED <<config, ledger, ledgerAcct, processor>>

\* Variant of PollStatus that forwards the intent's own status.
PollStatusOfIntent(piStatus) == piStatus

\* pi.status === "requires_capture" ? "authorized" : "pending" (part_000 237)
PollStatus(piStatus) == IF piStatus = "requires_capture" THEN "authorized" ELSE "pending"

\* The session is retrieved with its setup intent expanded (server.js 280-306):
\* out.reservation_id prefers the metadata.
PollSessionDeferred(s, sess) ==
    LET rid == Or(sess.rid, sess.client_reference_id)
        loc == [PollLoc EXCEPT !.reservationId = rid,
                               !.setupIntentId = sess.setup_intent,
                               !.customerId = sess.customer,
                               !.connectedAccountId = sess.account_id,
                               !.status = "card_on_file"]
    IN  IF gasUrl /\ rid # "" /\ sess.setup_intent # ""
        THEN Step(s, "retrieve_si", loc,
                  <<Call("processor", "setupIntents.retrieve", rid, sess.setup_intent)>>)
        ELSE Finish(s, loc, PollOut(sess, rid, ""))

\* The session is retrieved with its payment intent expanded (part_000
\* 211-242): the attachpi write is started and the answer sent without
\* waiting for it.
PollSessionImmediate(s, sess) ==
    LET hasPI == \E p \in pis : p.id = sess.payment_intent
        pi == CHOOSE p \in pis : p.id = sess.payment_intent
        rid == IF hasPI THEN Or(pi.rid, sess.client_reference_id)
               ELSE sess.client_reference_id
        piStatus == IF hasPI THEN pi.status ELSE ""
        loc == [PollLoc EXCEPT !.reservationId = rid,
                               !.piId = IF hasPI THEN pi.id ELSE 0,
                               !.status = PollStatus(piStatus)]
    IN  IF gasUrl /\ rid # "" /\ hasPI
        THEN req' = [req EXCEPT ![s].pc = "attachpi", ![s].loc = loc,
                                ![s].resp = PollOut(sess, rid, piStatus),
                                ![s].calls = @ \o <<Call("ledger", "attachpi", rid,
                                                         <<pi.id, AttachStatus(loc.status)>>)>>]
        ELSE Finish(s, loc, PollOut(sess, rid, piStatus))

\* stripe.checkout.sessions.retrieve answers; it throws for an unknown id.
PollRetrieveSession(s) ==
    /\ req[s].kind = "poll" /\ req[s].pc = "retrieve_session"
    /\ \E o \in ProcOutcomes :
        LET found == \E x \in sessions : x.id = req[s].in.session_id
            sess == CHOOSE x \in sessions : x.id = req[s].in.session_id
        IN  IF o = "throw" \/ ~found
            THEN Finish(s, req[s].loc, LookupFailed)
            ELSE IF variant = "deferred"
            THEN PollSessionDeferred(s, sess)
            ELSE PollSessionImmediate(s, sess)
    /\ UNCHANGED <<config, ledger, ledgerAcct, processor, started>>

\* The answer of the deferred poll once its best-effort block is over.
PollAnswer(s) ==
    [Resp(200, "", "", 0, req[s].in.session_id) EXCEPT !.body = req[s].loc.reservationId]

\* stripe.setupIntents.retrieve(out.setup_intent_id) answers, or throws (also
\* for its argument, which is the expanded object): the inner catch warns and
\* the answer is sent (server.js 305-320).
PollRetrieveSI(s) ==
    /\ req[s].kind = "poll" /\ req[s].pc = "retrieve_si"
    /\ \E o \in ProcOutcomes :
        LET si == sis[req[s].loc.setupIntentId]
            loc == [req[s].loc EXCEPT !.customerId = Or(si.customer, @),
                                      !.paymentMethodId = si.payment_method]
        IN  IF o = "throw"
            THEN Finish(s, req[s].loc, PollAnswer(s))
            ELSE Step(s, "savesetup", loc,
                      <<Call("ledger", "savesetup", loc.reservationId,
                             <<loc.customerId, loc.paymentMethodId, loc.connectedAccountId>>)>>)
    /\ UNCHANGED <<config, ledger, ledgerAcct, processor, started>>

\* The savesetup fetch answers (server.js 308-313, 516-517).
PollSaveSetup(s) ==
    /\ req[s].kind = "poll" /\ req[s].pc = "savesetup"
    /\ \E o \in WriteOutcomes :
        LET loc == req[s].loc
        IN  /\ ledger' = IF o = "ok"
                         THEN LedgerSaveSetup(ledger, loc.reservationId, loc.customerId,
                                              loc.paymentMethodId, loc.connectedAccountId)
                         ELSE ledger
            /\ IF SaveSetupReturns(o)
               THEN Step(s, "setpreauth", loc,
                         <<Call("ledger", "setpreauth", loc.reservationId, loc.status)>>)
               ELSE Finish(s, loc, PollAnswer(s))
    /\ UNCHANGED <<config, ledgerAcct, processor, started>>

\* The setpreauth fetch answers (server.js 314, 535-544).
PollSetPreauth(s) ==
    /\ req[s].kind = "poll" /\ req[s].pc = "setpreauth"
    /\ \E o \in WriteOutcomes :
        /\ ledger' = IF o = "ok"
                     THEN LedgerSetPreauth(ledger, req[s].loc.reservationId, req[s].loc.status)
                     ELSE ledger
        /\ Finish(s, req[s].loc, PollAnswer(s))
    /\ UNCHANGED <<config, ledgerAcct, processor, started>>

\* The attachpi fetch started by the poll answers, after the response
\* (part_000 236-239, 298-308).
PollAttachPI(s) ==
    /\ req[s].kind = "poll" /\ req[s].pc = "attachpi"
    /\ \E o \in WriteOutcomes :
        /\ ledger' = IF o = "ok"
                     THEN LedgerAttachPI(ledger, req[s].loc.reservationId, req[s].loc.piId,
                                         AttachStatus(req[s].loc.status))
                     ELSE ledger
        /\ req' = [req EXCEPT ![s].pc = "done"]
    /\ UNCHANGED <<config, ledgerAcct, processor, started>>

Poll(s) ==
    \/ PollStart(s, {0} \cup {x.id : x \in sessions})
    \/ PollRetrieveSession(s)
    \/ PollRetrieveSI(s)
    \/ PollSaveSetup(s)
    \/ PollSetPreauth(s)
    \/ PollAttachPI(s)

\* ---------------------------------------------------- /capture, /release ---
SettleLoc == [reservationId |-> "", status |-> "", piId |-> 0]

\* args.amount_to_capture: Math.floor(Number(amount_cents)) when that number is
\* finite and positive, else left out (0).
AmountToCapture(a) ==
    IF ToNumber(a).fin /\ ToNumber(a).n > 0 THEN Floor(ToNumber(a).n) ELSE 0

\* POST /capture up to its await (server.js 411-420, part_000 250-258);
\* payment intent id 0 is a missing payment_intent_id.
CaptureStart(s, ids, amounts) ==
    /\ Accept(s)
    /\ \E id \in ids, a \in amounts :
        LET in == [payment_intent_id |-> id, amount_cents |-> a]
        IN  IF id = 0
            THEN BeginDone(s, "capture", in, SettleLoc,
                           Resp(400, "", "missing payment_intent_id", 0, 0))
            ELSE Begin(s, "capture", in, "settle", SettleLoc,
                       <<Call("processor", "paymentIntents.capture", "",
                              <<id, AmountToCapture(a)>>)>>)
    /\ UNCHANGED <<config, ledger, ledgerAcct, processor>>

\* POST /release up to its await (server.js 431-435, part_000 271-275).
ReleaseStart(s, ids) ==
    /\ Accept(s)
    /\ \E id \in ids :
        LET in == [payment_intent_id |-> id]
        IN  IF id = 0
            THEN BeginDone(s, "release", in, SettleLoc,
                           Resp(400, "", "missing payment_intent_id", 0, 0))
            ELSE Begin(s, "release", in, "settle", SettleLoc,
                       <<Call("processor", "paymentIntents.cancel", "", id)>>)
    /\ UNCHANGED <<config, ledger, ledgerAcct, processor>>

\* Variant of SettleStatus in which /release writes what /capture writes.
SettleStatusOfCapture(kind) == IF variant = "deferred" THEN "paid" ELSE "captured"

\* The status /capture and /release write: "paid" in server.js (423),
\* "captured" in part_000 (262), "released" in both.
SettleStatus(kind) ==
    IF kind = "release" THEN "released"
    ELSE IF variant = "deferred" THEN "paid" ELSE "captured"

SettleFailed(kind) ==
    Resp(500, "", IF kind = "capture" THEN "capture_failed" ELSE "release_failed", 0, 0)

\* stripe.paymentIntents.capture / cancel answers: it throws unless the
\* intent exists and is still uncaptured; then the status write is started
\* and the answer sent without waiting for it (server.js 420-425, 435-440).
SettleIntent(s) ==
    /\ req[s].kind \in {"capture", "release"} /\ req[s].pc = "settle"
    /\ \E o \in ProcOutcomes :
        LET id == req[s].in.payment_intent_id
            can == \E p \in pis : p.id = id /\ p.status = "requires_capture"
            pi == CHOOSE p \in pis : p.id = id
            loc == [SettleLoc EXCEPT !.reservationId = pi.rid, !.piId = id,
                                     !.status = SettleStatus(req[s].kind)]
            resp == Resp(200, "ok", "", id, 0)
        IN  IF o = "throw" \/ ~can
            THEN /\ Finish(s, req[s].loc, SettleFailed(req[s].kind))
                 /\ UNCHANGED pis
            ELSE /\ pis' = (pis \ {pi}) \cup
                           {[pi EXCEPT !.status = IF req[s].kind = "capture"
                                                   THEN "succeeded" ELSE "canceled"]}
                 /\ IF gasUrl /\ pi.rid # ""
                    THEN req' = [req EXCEPT ![s].pc = "setpreauth", ![s].loc = loc,
                                            ![s].resp = resp,
                                            ![s].calls = @ \o <<Call("ledger", "setpreauth",
                                                                     pi.rid, loc.status)>>]
                    ELSE Finish(s, loc, resp)
    /\ UNCHANGED <<config, ledger, ledgerAcct, idem, sessions, nextId, sis, customers,
                   accounts, started>>

\* The setpreauth fetch started by /capture or /release answers, after the
\* response; .catch(()=>{}) drops a rejection.
SettleSetPreauth(s) ==
    /\ req[s].kind \in {"capture", "release"} /\ req[s].pc = "setpreauth"
    /\ \E o \in WriteOutcomes :
        /\ ledger' = IF o = "ok"
                     THEN LedgerSetPreauth(ledger, req[s].loc.reservationId, req[s].loc.status)
                     ELSE ledger
        /\ req' = [req EXCEPT ![s].pc = "done"]
    /\ UNCHANGED <<config, ledgerAcct, processor, started>>

Settle(s) ==
    \/ CaptureStart(s, {0} \cup {p.id : p \in pis}, {Sixty, [kind |-> "absent", n |-> 0]})
    \/ ReleaseStart(s, {0} \cup {p.id : p \in pis})
    \/ SettleIntent(s)
    \/ SettleSetPreauth(s)

\* ---------------------------------------------------- /connect/get-paid ---
\* Locals: accountId and whether it was created by this request; known is
\* what the Ledger held for the location when the request arrived.
GetPaidLoc == [accountId |-> "", created |-> FALSE, known |-> "", mode |-> ""]

GetPaidFailed == Resp(500, "", "connect_get_paid_failed", 0, 0)

\* The id of the connected account that is the processor's n-th object.
AccountId(n) == "acct_n" \o ToString(n)

CreateAccountCall(location) == Call("processor", "accounts.create", "", location)

\* GET /connect/get-paid up to its first await (server.js 137-155).
GetPaidStart(s, locs) ==
    /\ Accept(s)
    /\ variant = "deferred"
    /\ \E l \in locs :
        LET in == [location |-> l]
            loc == [GetPaidLoc EXCEPT !.known = IF l = "" THEN "" ELSE ledgerAcct[l]]
        IN  IF l = ""
            THEN BeginDone(s, "getpaid", in, loc, Resp(400, "", "Missing location", 0, 0))
            ELSE IF gasUrl
            THEN Begin(s, "getpaid", in, "getacct", loc, <<Call("ledger", "getacct", l, "")>>)
            ELSE Begin(s, "getpaid", in, "create_account", loc, <<CreateAccountCall(l)>>)
    /\ UNCHANGED <<config, ledger, ledgerAcct, processor>>

RetrieveAccountCall(accountId) == Call("processor", "accounts.retrieve", "", accountId)

\* getStripeAccountIdForLocation answers: the cached id, or null on 404, an
\* empty or non-JSON body or a rejected fetch (server.js 142-155, 475-486).
GetPaidGetAcct(s) ==
    /\ req[s].kind = "getpaid" /\ req[s].pc = "getacct"
    /\ \E o \in ReadOutcomes :
        LET accountId == IF o = "ok" THEN ledgerAcct[req[s].in.location] ELSE ""
            loc == [req[s].loc EXCEPT !.accountId = accountId]
        IN  IF accountId = ""
            THEN Step(s, "create_account", loc, <<CreateAccountCall(req[s].in.location)>>)
            ELSE Step(s, "retrieve", loc, <<RetrieveAccountCall(accountId)>>)
    /\ UNCHANGED <<config, ledger, ledgerAcct, processor, started>>

\* stripe.accounts.create answers (server.js 155-157).
GetPaidCreateAccount(s) ==
    /\ req[s].kind = "getpaid" /\ req[s].pc = "create_account"
    /\ \E o \in ProcOutcomes :
        IF o = "throw"
        THEN /\ Finish(s, req[s].loc, GetPaidFailed)
             /\ UNCHANGED processor
        ELSE LET id == AccountId(nextId)
                 loc == [req[s].loc EXCEPT !.accountId = id, !.created = TRUE]
             IN  /\ nextId <= MaxObjects
                 /\ accounts' = accounts \cup {[id |-> id, location |-> req[s].in.location]}
                 /\ nextId' = nextId + 1
                 /\ IF gasUrl
                    THEN Step(s, "setacct", loc,
                              <<Call("ledger", "setacct", req[s].in.location, id)>>)
                    ELSE Step(s, "retrieve", loc, <<RetrieveAccountCall(id)>>)
                 /\ UNCHANGED <<idem, pis, sessions, sis, customers>>
    /\ UNCHANGED <<config, ledger, ledgerAcct, started>>

\* Variant of SetAcctReturns in which a non-2xx answer throws.
SetAcctChecksOk(o) == o = "ok"

\* await saveStripeAccountIdForLocation(...) returns (it returns r.ok, which
\* the handler does not look at) unless the fetch rejects.
SetAcctReturns(o) == o # "throw"

\* saveStripeAccountIdForLocation answers; r.ok is returned and not looked at
\* (server.js 157, 487-492).
GetPaidSetAcct(s) ==
    /\ req[s].kind = "getpaid" /\ req[s].pc = "setacct"
    /\ \E o \in WriteOutcomes :
        /\ ledgerAcct' = IF o = "ok"
                         THEN [ledgerAcct EXCEPT ![req[s].in.location] = req[s].loc.accountId]
                         ELSE ledgerAcct
        /\ IF SetAcctReturns(o)
           THEN Step(s, "retrieve", req[s].loc, <<RetrieveAccountCall(req[s].loc.accountId)>>)
           ELSE Finish(s, req[s].loc, GetPaidFailed)
    /\ UNCHANGED <<config, ledger, processor, started>>

\* stripe.accounts.retrieve answers; the account needs onboarding or not
\* (server.js 160-176).
GetPaidRetrieve(s) ==
    /\ req[s].kind = "getpaid" /\ req[s].pc = "retrieve"
    /\ \E o \in ProcOutcomes, needsOnboarding \in BOOLEAN :
        IF o = "throw"
        THEN Finish(s, req[s].loc, GetPaidFailed)
        ELSE Step(s, "link",
                  [req[s].loc EXCEPT !.mode = IF needsOnboarding THEN "onboarding" ELSE "login"],
                  <<Call("processor",
                         IF needsOnboarding THEN "accountLinks.create"
                         ELSE "accounts.createLoginLink",
                         "", req[s].loc.accountId)>>)
    /\ UNCHANGED <<config, ledger, ledgerAcct, processor, started>>

\* stripe.accountLinks.create / accounts.createLoginLink answers
\* (server.js 167-181).
GetPaidLink(s) ==
    /\ req[s].kind = "getpaid" /\ req[s].pc = "link"
    /\ \E o \in ProcOutcomes :
        IF o = "throw"
        THEN Finish(s, req[s].loc, GetPaidFailed)
        ELSE Finish(s, req[s].loc,
                    [Resp(200, req[s].loc.mode, "", 0, 0) EXCEPT !.body = req[s].loc.accountId])
    /\ UNCHANGED <<config, ledger, ledgerAcct, processor, started>>

GetPaid(s) ==
    \/ GetPaidStart(s, Locs \cup {""})
    \/ GetPaidGetAcct(s)
    \/ GetPaidCreateAccount(s)
    \/ GetPaidSetAcct(s)
    \/ GetPaidRetrieve(s)
    \/ GetPaidLink(s)

\* ------------------------------------------------------- specifications ---
\* req.body of /approve: <<reservation_id, amount_cents, location>>
ApproveBodies(rids, amounts, locs) == rids \X amounts \X locs

\* A raw amount that clamps to 50, one that stays 60, and a rejected one.
FewAmounts ==
    {[kind |-> "num", n |-> 49 * Scale + 1], Sixty, [kind |-> "absent", n |-> 0]}

\* /approve bodies: reservation R1 at its location with each of FewAmounts,
\* R1 without a location, and a body without reservation_id.
FewApprovals ==
    ApproveBodies({"R1"}, FewAmounts, Locs)
        \cup ApproveBodies({""}, {Sixty}, Locs)
        \cup ApproveBodies({"R1"}, {Sixty}, {""})

Approve(s) ==
    \/ ApproveStart(s, FewApprovals)
    \/ ApprovePayinfo(s)
    \/ ApproveGetAcct(s)
    \/ ApproveCharge(s)
    \/ ApproveWritePaid(s)
    \/ ApproveScaSession(s)
    \/ ApproveWriteAction(s)
    \/ ApproveWriteFailed(s)

\* Both revisions, the secret and the Ledger endpoint set or unset, an empty
\* Ledger, notifications only.
InitWebhook ==
    /\ InitCommon
    /\ variant \in {"deferred", "immediate"}
    /\ webhookSecret \in BOOLEAN
    /\ gasUrl \in BOOLEAN
    /\ ledgerAcct = [l \in Locs |-> ""]
    /\ sis \in [{"si_1"} -> SetupIntentStates]
    /\ feeBps = 0 /\ feeFixed = 0
    /\ ledger = [x \in Rids |-> EmptyRow]

NextWebhook == \E s \in Slots : Webhook(s)

SpecWebhook == InitWebhook /\ [][NextWebhook]_vars

\* Platform fee configurations <<APPLICATION_FEE_BPS, APPLICATION_FEE_CENTS_FIXED>>.
FeeConfigs == {<<0, 0>>, <<250, 0>>, <<0, 99>>, <<100, 0>>, <<250, 99>>}

\* The deferred-charge revision, whose /approve reads neither the webhook
\* secret nor a setup intent.
InitApprove ==
    /\ InitCommon
    /\ variant = "deferred"
    /\ webhookSecret = TRUE
    /\ gasUrl \in BOOLEAN
    /\ ledgerAcct \in [Locs -> Accts \cup {""}]
    /\ sis = [i \in {"si_1"} |-> [customer |-> "cus_1", payment_method |-> "pm_1"]]
    /\ feeBps = 250 /\ feeFixed = 0
    /\ \E r \in InitRows : ledger = [x \in Rids |-> IF x = "R1" THEN r ELSE FullRow]

NextApprove == \E s \in Slots : Approve(s)

SpecApprove == InitApprove /\ [][NextApprove]_vars

\* Amounts for the fee: one clamped to 50, 100 and 10000.
FeeAmounts ==
    {[kind |-> "num", n |-> 49 * Scale + 1], [kind |-> "num", n |-> 100 * Scale],
     [kind |-> "num", n |-> 10000 * Scale]}

AcctRow == [FullRow EXCEPT !.account_id = "acct_A"]

\* /approve under every fee configuration, for a reservation with a card on
\* file, with and without a connected account stored on the row or cached for
\* the location; the requests come one after the other.
InitFee ==
    /\ InitCommon
    /\ variant = "deferred"
    /\ webhookSecret = TRUE
    /\ gasUrl = TRUE
    /\ ledgerAcct \in [Locs -> Accts \cup {""}]
    /\ sis = [i \in {"si_1"} |-> [customer |-> "cus_1", payment_method |-> "pm_1"]]
    /\ \E c \in FeeConfigs : feeBps = c[1] /\ feeFixed = c[2]
    /\ \E r \in {FullRow, AcctRow} : ledger = [x \in Rids |-> IF x = "R1" THEN r ELSE FullRow]

NextFee ==
    \/ ApproveStart("h1", ApproveBodies({"R1"}, FeeAmounts, Locs \cup {""}))
    \/ ApprovePayinfo("h1")
    \/ ApproveGetAcct("h1")
    \/ ApproveCharge("h1")
    \/ ApproveWritePaid("h1")
    \/ ApproveScaSession("h1")
    \/ ApproveWriteAction("h1")
    \/ ApproveWriteFailed("h1")

SpecFee == InitFee /\ [][NextFee]_vars

\* /create-checkout-session of either revision: with and without a
\* reservation_id, location and email, two emails, two amounts.
InitCreate ==
    /\ InitCommon
    /\ variant \in {"deferred", "immediate"}
    /\ webhookSecret = TRUE
    /\ gasUrl \in BOOLEAN
    /\ ledgerAcct \in [Locs -> Accts \cup {""}]
    /\ sis = [i \in {"si_1"} |-> [customer |-> "cus_1", payment_method |-> "pm_1"]]
    /\ feeBps = 0 /\ feeFixed = 0
    /\ ledger = [x \in Rids |-> EmptyRow]

Create(s) ==
    \/ CreateStartDeferred(s, {"R1", ""} \X (Locs \cup {""}) \X {"a@x", "b@x", ""})
    \/ CreateGetAcct(s)
    \/ CreateListCustomers(s)
    \/ CreateCustomer(s)
    \/ CreateSessionDeferred(s)
    \/ CreateStartImmediate(s, {"R1", ""}, FewAmounts, Locs \cup {""}, {"a@x", ""})
    \/ CreateSessionImmediate(s)

NextCreate == \E s \in Slots : Create(s)

SpecCreate == InitCreate /\ [][NextCreate]_vars

\* Every handler that creates a processor object for a reservation, one
\* request after the other: /create-checkout-session of either revision and
\* /approve for reservations with a card on file.
InitObjects ==
    /\ InitCommon
    /\ variant \in {"deferred", "immediate"}
    /\ webhookSecret = TRUE
    /\ gasUrl \in BOOLEAN
    /\ ledgerAcct \in [Locs -> Accts \cup {""}]
    /\ sis = [i \in {"si_1"} |-> [customer |-> "cus_1", payment_method |-> "pm_1"]]
    /\ feeBps = 0 /\ feeFixed = 0
    /\ ledger = [x \in Rids |-> FullRow]

NextObjects ==
    \/ Create("h1")
    \/ Approve("h1")

SpecObjects == InitObjects /\ [][NextObjects]_vars

\* One notification and its redeliveries, one after the other: each
\* delivery after the first carries the event of the one before.
NextRedeliver ==
    \/ WebhookEvent("h1", IF req["h1"].kind = "webhook" THEN {req["h1"].in.event}
                          ELSE Events)
    \/ WebhookRetrieveSI("h1")
    \/ WebhookSaveSetup("h1")
    \/ WebhookSetPreauth("h1")
    \/ WebhookAttachPI("h1")

SpecRedeliver == InitWebhook /\ [][NextRedeliver]_vars

\* amount_cents 10, 49 and 60: the first two are clamped to 50.
ChargeAmounts ==
    {[kind |-> "num", n |-> 10 * Scale], [kind |-> "num", n |-> 49 * Scale], Sixty}

\* /approve for one reservation with a card on file, at amounts of which two
\* clamp to the same value; the requests may overlap.
InitCharge ==
    /\ InitCommon
    /\ variant = "deferred"
    /\ webhookSecret = TRUE
    /\ gasUrl = TRUE
    /\ ledgerAcct = [l \in Locs |-> ""]
    /\ sis = [i \in {"si_1"} |-> [customer |-> "cus_1", payment_method |-> "pm_1"]]
    /\ feeBps = 0 /\ feeFixed = 0
    /\ ledger = [x \in Rids |-> FullRow]

NextCharge ==
    \E s \in Slots :
        \/ ApproveStart(s, ApproveBodies({"R1"}, ChargeAmounts, Locs))
        \/ ApprovePayinfo(s)
        \/ ApproveGetAcct(s)
        \/ ApproveCharge(s)
        \/ ApproveWritePaid(s)
        \/ ApproveScaSession(s)
        \/ ApproveWriteAction(s)
        \/ ApproveWriteFailed(s)

SpecCharge == InitCharge /\ [][NextCharge]_vars

\* The checkout.session.completed notification of a session.
SessionEvent(sess) ==
    [NoEvent EXCEPT !.type = "checkout.session.completed", !.mode = sess.mode,
                    !.client_reference_id = sess.client_reference_id,
                    !.meta_rid = sess.rid, !.setup_intent = sess.setup_intent,
                    !.payment_intent = sess.payment_intent, !.customer = sess.customer,
                    !.meta_acct = sess.account_id]

\* Ids of a session and an intent made before the first request: they lie
\* beyond the ones the processor hands out from nextId on.
OldSessionId == MaxObjects + 1
OldIntentId == MaxObjects + 2

\* The session /create-checkout-session makes for reservation R1, completed
\* by the customer: in server.js a setup session whose setup intent holds the
\* card, in part_000 a payment session whose intent is authorized or, later,
\* captured.
CompletedSetup ==
    [NoSession EXCEPT !.id = OldSessionId, !.mode = "setup", !.rid = "R1",
                      !.client_reference_id = "R1", !.intent_rid = "R1",
                      !.customer = "cus_1", !.location = "Pier7", !.setup_intent = "si_1"]

CompletedPayment ==
    [NoSession EXCEPT !.id = OldSessionId, !.mode = "payment", !.client_reference_id = "R1",
                      !.intent_rid = "R1", !.payment_intent = OldIntentId, !.amount = 60 * Scale,
                      !.location = "Pier7"]

CheckoutIntent(status) ==
    [id |-> OldIntentId, rid |-> "R1", amount |-> 60 * Scale, customer |-> "", payment_method |-> "pm_1",
     status |-> status, destination |-> "", fee_sent |-> FALSE, fee |-> 0]

\* One completed checkout: its notification and its confirmation-page poll
\* arrive in either order, possibly more than once.
InitConfirm ==
    /\ variant \in {"deferred", "immediate"}
    /\ webhookSecret = TRUE
    /\ gasUrl \in BOOLEAN
    /\ ledgerAcct \in [Locs -> Accts \cup {""}]
    /\ sis = [i \in {"si_1"} |-> [customer |-> "cus_1", payment_method |-> "pm_1"]]
    /\ feeBps = 0 /\ feeFixed = 0
    /\ ledger = [x \in Rids |-> EmptyRow]
    /\ idem = <<>>
    /\ customers = {}
    /\ accounts = {}
    /\ nextId = 1
    /\ IF variant = "deferred"
       THEN /\ \E a \in Accts \cup {""} : sessions = {[CompletedSetup EXCEPT !.account_id = a]}
            /\ pis = {}
       ELSE /\ sessions = {CompletedPayment}
            /\ \E st \in {"requires_capture", "succeeded"} : pis = {CheckoutIntent(st)}
    /\ req = [s \in Slots |-> Idle]
    /\ started = 0

NextConfirm ==
    \E s \in Slots :
        \/ WebhookEvent(s, {SessionEvent(x) : x \in sessions})
        \/ WebhookRetrieveSI(s)
        \/ WebhookSaveSetup(s)
        \/ WebhookSetPreauth(s)
        \/ WebhookAttachPI(s)
        \/ Poll(s)

SpecConfirm == InitConfirm /\ [][NextConfirm]_vars

\* Every handler that writes a status, one request after the other: a
\* completed checkout whose intent is authorized or captured, and in
\* server.js a card on file for both reservations.
InitStatus ==
    /\ variant \in {"deferred", "immediate"}
    /\ webhookSecret = TRUE
    /\ gasUrl = TRUE
    /\ ledgerAcct = [l \in Locs |-> ""]
    /\ sis = [i \in {"si_1"} |-> [customer |-> "cus_1", payment_method |-> "pm_1"]]
    /\ feeBps = 0 /\ feeFixed = 0
    /\ ledger = [x \in Rids |-> IF variant = "deferred" THEN FullRow ELSE EmptyRow]
    /\ idem = <<>>
    /\ customers = {}
    /\ accounts = {}
    /\ nextId = 1
    /\ sessions = {IF variant = "deferred" THEN CompletedSetup ELSE CompletedPayment}
    /\ \E st \in {"requires_capture", "succeeded"} : pis = {CheckoutIntent(st)}
    /\ req = [s \in Slots |-> Idle]
    /\ started = 0

NextStatus ==
    \/ Webhook("h1")
    \/ Approve("h1")
    \/ Poll("h1")
    \/ Settle("h1")

SpecStatus == InitStatus /\ [][NextStatus]_vars

\* /connect/get-paid for a location with or without a cached account, with
\* or without a Ledger, the requests coming one after the other.
InitGetPaid ==
    /\ InitCommon
    /\ variant = "deferred"
    /\ webhookSecret = TRUE
    /\ gasUrl \in BOOLEAN
    /\ ledgerAcct \in [Locs -> Accts \cup {""}]
    /\ sis = [i \in {"si_1"} |-> [customer |-> "cus_1", payment_method |-> "pm_1"]]
    /\ feeBps = 0 /\ feeFixed = 0
    /\ ledger = [x \in Rids |-> EmptyRow]

NextGetPaid == GetPaid("h1")

SpecGetPaid == InitGetPaid /\ [][NextGetPaid]_vars

\* The same with requests that overlap.
NextGetPaidRace == \E s \in Slots : GetPaid(s)

SpecGetPaidRace == InitGetPaid /\ [][NextGetPaidRace]_vars

\* Every kind of amount_cents, sent to the two handlers that validate it.
InitAmount ==
    /\ InitCommon
    /\ variant \in {"deferred", "immediate"}
    /\ webhookSecret = TRUE
    /\ gasUrl \in BOOLEAN
    /\ ledgerAcct \in [Locs -> Accts \cup {""}]
    /\ sis = [i \in {"si_1"} |-> [customer |-> "cus_1", payment_method |-> "pm_1"]]
    /\ feeBps = 0 /\ feeFixed = 0
    /\ ledger = [x \in Rids |-> FullRow]

NextAmount ==
    \E s \in Slots :
        \/ ApproveStart(s, ApproveBodies({"R1"}, AmountInputs, Locs))
        \/ ApprovePayinfo(s)
        \/ ApproveGetAcct(s)
        \/ ApproveCharge(s)
        \/ ApproveWritePaid(s)
        \/ ApproveScaSession(s)
        \/ ApproveWriteAction(s)
        \/ ApproveWriteFailed(s)
        \/ CreateStartImmediate(s, {"", "R1"}, AmountInputs, Locs, {"a@x"})
        \/ CreateSessionImmediate(s)

SpecAmount == InitAmount /\ [][NextAmount]_vars

\* The whole relay: either revision under any configuration, every handler.
Init ==
    /\ InitCommon
    /\ variant \in {"deferred", "immediate"}
    /\ webhookSecret \in BOOLEAN
    /\ gasUrl \in BOOLEAN
    /\ ledgerAcct \in [Locs -> Accts \cup {""}]
    /\ sis \in [{"si_1"} -> SetupIntentStates]
    /\ \E c \in FeeConfigs : feeBps = c[1] /\ feeFixed = c[2]
    /\ ledger \in [Rids -> InitRows]

Next ==
    \E s \in Slots :
        \/ Webhook(s)
        \/ ApproveStart(s, ApproveBodies(Rids \cup {""}, AmountInputs, Locs \cup {""}))
        \/ ApprovePayinfo(s)
        \/ ApproveGetAcct(s)
        \/ ApproveCharge(s)
        \/ ApproveWritePaid(s)
        \/ ApproveScaSession(s)
        \/ ApproveWriteAction(s)
        \/ ApproveWriteFailed(s)
        \/ CreateStartImmediate(s, Rids \cup {""}, AmountInputs, Locs \cup {""}, {"", "a@x"})
        \/ CreateSessionImmediate(s)
        \/ CreateStartDeferred(s, (Rids \cup {""}) \X (Locs \cup {""}) \X {"a@x", "b@x", ""})
        \/ CreateGetAcct(s)
        \/ CreateListCustomers(s)
        \/ CreateCustomer(s)
        \/ CreateSessionDeferred(s)
        \/ Poll(s)
        \/ Settle(s)
        \/ GetPaid(s)

Spec == Init /\ [][Next]_vars

\* ------------------------------------------------------------ properties ---
Done(s) == req[s].pc = "done"
Issued(s) == {req[s].calls[i] : i \in DOMAIN req[s].calls}
StatusWrites(s) == {c \in Issued(s) : c.sys = "ledger" /\ c.op \in LedgerWrites}
ProcessorCalls(s) == {c \in Issued(s) : c.sys = "processor"}
Charged(s) == req[s].kind = "approve" /\ req[s].loc.charged
\* The processor ended the charge of slot s with its authentication-required outcome.
AuthRequired(s) ==
    /\ Charged(s) /\ ~req[s].loc.res.ok /\ req[s].loc.res.pi # 0
    /\ \/ req[s].loc.res.code = "authentication_required"
       \/ req[s].loc.res.pistatus = "requires_action"

C5_MissingPaymentMethodRejected ==
    \A s \in Slots :
        (/\ req[s].kind = "approve"
         /\ \/ req[s].loc.payinfo = "none"
            \/ /\ req[s].loc.payinfo = "row"
               /\ \/ req[s].loc.customer_id = ""
                  \/ req[s].loc.payment_method_id = "")
          => /\ Done(s)
             /\ req[s].resp.code = 400
             /\ req[s].resp.error = "missing_customer_or_payment_method"
             /\ ProcessorCalls(s) = {}
             /\ StatusWrites(s) = {}
             /\ ~req[s].loc.charged

\* An /approve that found a customer but no payment method, and was rejected.
C5_Witness ==
    \E s \in Slots :
        /\ req[s].kind = "approve" /\ Done(s)
        /\ req[s].loc.payinfo = "row"
        /\ req[s].loc.customer_id # "" /\ req[s].loc.payment_method_id = ""
        /\ req[s].resp.error = "missing_customer_or_payment_method"

\* C6: whenever the charge ends with the authentication-required outcome and
\* the completion link was created, the response is action_required with the
\* link for that payment intent, a payment_action_required write was issued,
\* no success is returned and no failed write is issued.
C6_ActionRequiredReturnsLink ==
    \A s \in Slots :
        (AuthRequired(s) /\ Done(s) /\ req[s].loc.session # 0)
          => /\ req[s].resp.status = "action_required"
             /\ \E x \in sessions : /\ x.id = req[s].resp.url
                                    /\ x.payment_intent = req[s].loc.res.pi
             /\ Call("ledger", "setpreauth", req[s].in.reservation_id,
                     "payment_action_required") \in Issued(s)
             /\ Call("ledger", "setpreauth", req[s].in.reservation_id, "failed")
                    \notin Issued(s)

\* C7: whenever the charge succeeds, a setpreauth paid write is issued for the
\* reservation and the caller receives succeeded with the payment intent id.
C7_SuccessIsPaid ==
    \A s \in Slots :
        (Charged(s) /\ req[s].loc.res.ok /\ Done(s))
          => /\ Call("ledger", "setpreauth", req[s].in.reservation_id, "paid") \in Issued(s)
             /\ req[s].resp.code = 200
             /\ req[s].resp.status = "succeeded"
             /\ req[s].resp.pi = req[s].loc.res.pi

\* C8: whenever the charge fails for a reason other than authentication
\* required, a setpreauth failed write is issued and the caller receives 400,
\* status failed, with the processor's message (charge_failed when it has
\* none), whatever becomes of that write.
C8_FailureIsSurfaced ==
    \A s \in Slots :
        (Charged(s) /\ ~req[s].loc.res.ok /\ ~AuthRequired(s))
          => /\ Call("ledger", "setpreauth", req[s].in.reservation_id, "failed") \in Issued(s)
             /\ Done(s) =>
                  /\ req[s].resp.code = 400
                  /\ req[s].resp.status = "failed"
                  /\ req[s].resp.error =
                        IF req[s].loc.res.message # "" THEN req[s].loc.res.message
                        ELSE "charge_failed"

\* A declined charge whose failed write was itself rejected, answered 400 failed.
C8_Witness ==
    \E s \in Slots :
        /\ Charged(s) /\ Done(s)
        /\ req[s].loc.res.code = "card_declined"
        /\ req[s].loc.fw = "throw"
        /\ req[s].resp.status = "failed"
        /\ req[s].resp.error = "card declined"

\* C9: a failed paid write after a successful charge, or a failed
\* payment_action_required write after the completion link was created, is not
\* surfaced: the response still reports succeeded / action_required.
C9_MirrorWriteFailureHidden ==
    \A s \in Slots :
        (Charged(s) /\ Done(s) /\ req[s].loc.mirror \in {"http_error", "throw"})
          => IF req[s].loc.res.ok
             THEN req[s].resp.status = "succeeded" /\ req[s].resp.pi = req[s].loc.res.pi
             ELSE req[s].resp.status = "action_required"

\* C1: with a shared secret configured, a notification whose signature does
\* not verify is answered 400 at once: the request issues no Ledger call and
\* no processor call.
C1_BadSignatureRejected ==
    \A s \in Slots :
        (req[s].kind = "webhook" /\ webhookSecret /\ req[s].in.sig # "valid")
          => /\ Done(s)
             /\ req[s].resp.code = 400
             /\ Issued(s) = {}

\* A correlated payment_intent.succeeded notification with a bad signature,
\* rejected while the Ledger is configured.
C1_Witness ==
    \E s \in Slots :
        /\ req[s].kind = "webhook" /\ Done(s)
        /\ webhookSecret /\ gasUrl
        /\ req[s].in.sig = "invalid"
        /\ req[s].in.event.type = "payment_intent.succeeded"
        /\ req[s].in.event.meta_rid = "R1"
        /\ req[s].resp.code = 400

\* C2: with no shared secret configured, no step changes the Ledger, and
\* every notification is answered 200 without a single outbound call.
C2_NoSecretIgnoresAll ==
    [][~webhookSecret =>
          /\ ledger' = ledger
          /\ \A s \in Slots :
                req'[s].kind = "webhook"
                  => /\ req'[s].pc = "done"
                     /\ req'[s].resp.code = 200
                     /\ req'[s].calls = <<>>]_vars

\* A validly signed, correlated setup completion, ignored for want of a secret.
C2_Witness ==
    \E s \in Slots :
        /\ req[s].kind = "webhook" /\ Done(s)
        /\ ~webhookSecret /\ gasUrl
        /\ req[s].in.sig = "valid"
        /\ req[s].in.event.mode = "setup"
        /\ req[s].in.event.client_reference_id = "R1"
        /\ req[s].in.event.setup_intent = "si_1"
        /\ req[s].resp = RespText(200, "ignored")

\* C3: once the signature has verified, the response is 200, whatever the
\* event and whatever became of the setup-intent retrieval and Ledger writes.
C3_VerifiedAlwaysAcknowledged ==
    \A s \in Slots :
        (/\ req[s].kind = "webhook" /\ Done(s)
         /\ webhookSecret /\ req[s].in.sig = "valid")
          => req[s].resp.code = 200

\* A verified setup completion whose savesetup failed (no status write
\* followed it), acknowledged with 200.
C3_Witness ==
    \E s \in Slots :
        /\ req[s].kind = "webhook" /\ Done(s)
        /\ webhookSecret /\ req[s].in.sig = "valid"
        /\ Len(req[s].calls) = 2
        /\ req[s].calls[2].op = "savesetup"
        /\ req[s].resp.code = 200

\* C10: a finite number amount_cents reaches the processor as
\* max(50, floor(amount_cents)); a request whose amount_cents is absent, null,
\* empty or non-finite is answered 400 at validation, so it is never in
\* flight and issues no call.
C10_AmountClampedOrRejected ==
    \A s \in Slots :
        req[s].kind \in {"approve", "create"}
          => LET a == req[s].in.amount_cents
             IN  /\ a.kind = "num" =>
                        \A c \in ProcessorCalls(s) :
                            c.op = (IF req[s].kind = "approve"
                                    THEN "paymentIntents.create"
                                    ELSE "checkout.sessions.create")
                              => c.arg = Max(50, a.n \div Scale)
                 /\ a.kind \in {"absent", "null", "empty", "nan", "inf"} =>
                        /\ Done(s)
                        /\ req[s].resp.code = 400
                        /\ Issued(s) = {}
\* The /approve request in slot s has computed its fee and issued its charge.
FeeComputed(s) == req[s].kind = "approve" /\ ChargeCall(s) \in Issued(s)

\* C11: for every amount >= 50 and every configured rate r >= 0 and fixed fee
\* f >= 0, computeApplicationFee(amount) is floor(amount * r / 10000) + f; so
\* (10000, 250, 0) gives 250, (10000, 0, 99) gives 99, (100, 250, 0) gives 2,
\* and r = 0, f = 0 gives 0.
C11_FeeIsRatePlusFixed ==
    \A s \in Slots :
        (FeeComputed(s) /\ req[s].loc.amount >= 50 /\ feeBps >= 0 /\ feeFixed >= 0)
          => LET amount == req[s].loc.amount
                 fee == req[s].loc.applicationFeeAmount
             IN  /\ fee = (amount * feeBps) \div 10000 + feeFixed
                 /\ (amount = 10000 /\ feeBps = 250 /\ feeFixed = 0) => fee = 250
                 /\ (amount = 10000 /\ feeBps = 0 /\ feeFixed = 99) => fee = 99
                 /\ (amount = 100 /\ feeBps = 250 /\ feeFixed = 0) => fee = 2
                 /\ (feeBps = 0 /\ feeFixed = 0) => fee = 0

\* A charge of 100 at 250 basis points plus 99 fixed: the fee is 2 + 99.
C11_Witness ==
    \E s \in Slots :
        /\ FeeComputed(s)
        /\ req[s].loc.amount = 100 /\ feeBps = 250 /\ feeFixed = 99
        /\ req[s].loc.applicationFeeAmount = 101
\* C12: a payment intent created by /approve carries the application fee only
\* if a connected account is attached (the one stored on the reservation's
\* row or the one cached for the location) and the computed fee is positive;
\* the fee is never sent as 0 or less, and when it is sent the transfer
\* destination is that account.
C12_FeeOnlyWithAccountAndPositive ==
    \A p \in pis :
        p.fee_sent
          => /\ p.destination # ""
             /\ p.destination \in {ledger[p.rid].account_id}
                                    \cup {ledgerAcct[l] : l \in Locs}
             /\ p.fee > 0
             /\ p.fee = (p.amount * feeBps) \div 10000 + feeFixed

\* Two charges routed to the connected account: one carries a fee, the other
\* (its computed fee is 0) carries none.
C12_Witness ==
    \E p, q \in pis :
        /\ p.destination = "acct_A" /\ p.fee_sent /\ p.fee > 0
        /\ q.destination = "acct_A" /\ ~q.fee_sent
        /\ feeBps > 0
\* The request in slot s is a verified notification of kind type whose object
\* carries a reservation id in its metadata.
VerifiedIntentEvent(s, type) ==
    /\ req[s].kind = "webhook"
    /\ webhookSecret /\ req[s].in.sig = "valid"
    /\ req[s].in.event.type = type
    /\ req[s].in.event.meta_rid # ""

\* C13 as stated: a verified payment_intent.amount_capturable_updated
\* notification for reservation R makes the Ledger (when one is configured)
\* receive setpreauth(reservation_id = R, status = authorized).
C13_CapturableSetsPreauth ==
    \A s \in Slots :
        (/\ VerifiedIntentEvent(s, "payment_intent.amount_capturable_updated")
         /\ gasUrl /\ Done(s))
          => Call("ledger", "setpreauth", req[s].in.event.meta_rid, "authorized")
                \in Issued(s)

\* C13 amended: in the immediate-authorization revision with the Ledger
\* configured, such a notification issues exactly one Ledger call,
\* attachpi(reservation_id = R, payment_intent_id, status authorized), and when
\* its answer changes the Ledger, R is authorized with that intent attached;
\* the deferred-charge revision makes no call for it.
C13_CapturableAttachesAuthorized ==
    /\ [](\A s \in Slots :
            VerifiedIntentEvent(s, "payment_intent.amount_capturable_updated")
              => LET ev == req[s].in.event
                 IN  IF variant = "immediate" /\ gasUrl
                     THEN req[s].calls =
                            <<Call("ledger", "attachpi", ev.meta_rid, <<ev.id, "authorized">>)>>
                     ELSE req[s].calls = <<>> /\ Done(s))
    /\ [][\A s \in Slots :
            (/\ VerifiedIntentEvent(s, "payment_intent.amount_capturable_updated")
             /\ req[s].pc = "attachpi" /\ req'[s].pc = "done"
             /\ ledger' # ledger)
              => LET ev == req[s].in.event
                 IN  /\ ledger'[ev.meta_rid].status = "authorized"
                     /\ ledger'[ev.meta_rid].payment_intent_id = ev.id]_vars

\* Such a notification for R1, answered, with R1 authorized and the intent
\* attached in the Ledger.
C13_Witness ==
    \E s \in Slots :
        /\ VerifiedIntentEvent(s, "payment_intent.amount_capturable_updated")
        /\ variant = "immediate" /\ gasUrl /\ Done(s)
        /\ req[s].in.event.meta_rid = "R1"
        /\ ledger["R1"].status = "authorized"
        /\ ledger["R1"].payment_intent_id = req[s].in.event.id
\* C14: in both revisions a verified notification from which no reservation id
\* can be derived (an event kind the handler does not know, or an object with
\* neither client_reference_id nor metadata.reservation_id) is answered 200
\* and issues no Ledger call.
C14_UncorrelatedIsNoOp ==
    \A s \in Slots :
        (/\ req[s].kind = "webhook"
         /\ webhookSecret /\ req[s].in.sig = "valid"
         /\ \/ req[s].in.event.type = "charge.refunded"
            \/ /\ req[s].in.event.client_reference_id = ""
               /\ req[s].in.event.meta_rid = "")
          => /\ Done(s)
             /\ req[s].resp.code = 200
             /\ {c \in Issued(s) : c.sys = "ledger"} = {}

\* A verified setup completion that names a setup intent but no reservation,
\* answered 200 while the Ledger is configured.
C14_Witness ==
    \E s \in Slots :
        /\ req[s].kind = "webhook" /\ Done(s)
        /\ webhookSecret /\ gasUrl /\ req[s].in.sig = "valid"
        /\ req[s].in.event.mode = "setup"
        /\ req[s].in.event.setup_intent = "si_1"
        /\ req[s].in.event.client_reference_id = ""
        /\ req[s].in.event.meta_rid = ""
        /\ req[s].resp = Ok200
\* The request in slot s is a /create-checkout-session of either revision.
IsCreate(s) == req[s].kind \in {"create", "setup"}

\* C15: however /create-checkout-session requests with the same non-empty
\* reservation_id interleave, and whatever else their bodies hold, the
\* processor holds at most one checkout session for that reservation, and
\* every such request that is answered with a session is answered with that one.
C15_OneSessionPerReservation ==
    /\ \A x, y \in sessions :
          (x.client_reference_id # "" /\ x.client_reference_id = y.client_reference_id)
            => x = y
    /\ \A s \in Slots :
          (IsCreate(s) /\ Done(s) /\ req[s].resp.code = 200 /\ req[s].in.reservation_id # "")
            => \E x \in sessions : /\ x.id = req[s].resp.url
                                    /\ x.client_reference_id = req[s].in.reservation_id

\* Two requests for R1 that differ in email or amount, both answered with
\* the one session the processor holds.
C15_Witness ==
    /\ IsCreate("h1") /\ IsCreate("h2")
    /\ Done("h1") /\ Done("h2")
    /\ req["h1"].in.reservation_id = "R1" /\ req["h2"].in.reservation_id = "R1"
    /\ req["h1"].in # req["h2"].in
    /\ req["h1"].resp.code = 200 /\ req["h2"].resp.code = 200
    /\ req["h1"].resp.url = req["h2"].resp.url
    /\ Cardinality(sessions) = 1
\* C16: once an account id is stored in the Ledger for a location, no later
\* /connect/get-paid for that location asks the processor for another
\* account, also when its getacct read fails; and over requests that come
\* one after the other a location has at most one account created.
C16_AccountCreatedOnce ==
    /\ \A s \in Slots :
          (req[s].kind = "getpaid" /\ gasUrl /\ req[s].loc.known # "")
            => CreateAccountCall(req[s].in.location) \notin Issued(s)
    /\ \A l \in Locs : Cardinality({a \in accounts : a.location = l}) <= 1
\* The status values and the attachments that the Ledger calls of slot s carry.
StatusesSent(s) ==
    {c.arg : c \in {d \in Issued(s) : d.sys = "ledger" /\ d.op = "setpreauth"}}
    \cup {c.arg[2] : c \in {d \in Issued(s) : d.sys = "ledger" /\ d.op = "attachpi"}}
AttachmentsSent(s) ==
    {<<c.rid, c.arg>> : c \in {d \in Issued(s) : d.sys = "ledger" /\ d.op = "savesetup"}}
    \cup {<<c.rid, c.arg[1]>> : c \in {d \in Issued(s) : d.sys = "ledger" /\ d.op = "attachpi"}}

\* C17: for one completed checkout session, the verified session-completed
\* notification and the confirmation-page poll send the Ledger the same
\* status and the same attachment for the reservation, in either variant.
C17_WebhookAndPollAgree ==
    \A s, t \in Slots :
        (req[s].kind = "webhook" /\ req[t].kind = "poll")
          => /\ (StatusesSent(s) # {} /\ StatusesSent(t) # {})
                  => StatusesSent(s) = StatusesSent(t)
             /\ (AttachmentsSent(s) # {} /\ AttachmentsSent(t) # {})
                  => AttachmentsSent(s) = AttachmentsSent(t)
\* The status values of the spec's list, and the one the poll of part_000
\* writes besides.
ListedStatuses ==
    {"card_on_file", "requires_capture", "authorized", "captured", "paid", "failed",
     "released", "payment_action_required"}

ForReservation(s) == (IsCreate(s) \/ req[s].kind = "approve") /\ req[s].in.reservation_id # ""

\* C19: every checkout session (the one /approve creates to complete an
\* authentication included) and every payment intent created for a request
\* with a non-empty reservation_id carries that reservation_id in its
\* metadata, and so does the metadata handed to the intent a checkout
\* session will create.
C19_ObjectsCarryReservation ==
    \A s \in Slots :
        ForReservation(s) =>
            /\ \A x \in sessions :
                  (req[s].loc.session = x.id) =>
                      /\ x.rid = req[s].in.reservation_id
                      /\ IsCreate(s) => x.intent_rid = req[s].in.reservation_id
            /\ \A p \in pis :
                  (Charged(s) /\ req[s].loc.res.pi = p.id) => p.rid = req[s].in.reservation_id
\* C20: /create-checkout-session without a location (either variant) or
\* without an email (deferred variant) is answered with a 4xx error, and
\* makes no processor call and no Ledger call.
C20_LocationAndEmailRequired ==
    \A s \in Slots :
        (/\ IsCreate(s)
         /\ \/ req[s].in.location = ""
            \/ variant = "deferred" /\ req[s].in.email = "")
          => /\ Done(s)
             /\ req[s].resp.code \in 400..499
             /\ req[s].calls = <<>>
\* The card_on_file status write of slot s for reservation r.
CardOnFileCall(r) == Call("ledger", "setpreauth", r, "card_on_file")

\* The savesetup write of slot s: for its reservation, with the customer and
\* payment method of the session's setup intent.
SaveSetupCall(s) ==
    Call("ledger", "savesetup", req[s].loc.reservationId,
         <<sis[req[s].loc.setupIntentId].customer,
           sis[req[s].loc.setupIntentId].payment_method, req[s].loc.connectedAccountId>>)

\* C21: a webhook or poll request issues the card_on_file status write for a
\* reservation only as the call right after its savesetup write for the same
\* reservation (carrying the setup intent's customer and payment method),
\* and only in the step in which that savesetup write lands in the Ledger.
C21_SaveSetupBeforeCardOnFile ==
    /\ [](\A s \in Slots : \A i \in DOMAIN req[s].calls :
            (req[s].kind \in {"webhook", "poll"}
               /\ req[s].calls[i] = CardOnFileCall(req[s].calls[i].rid))
              => /\ i > 1
                 /\ req[s].calls[i - 1] = SaveSetupCall(s)
                 /\ req[s].calls[i].rid = req[s].loc.reservationId)
    /\ [][\A s \in Slots :
            (/\ req'[s].kind \in {"webhook", "poll"}
             /\ CardOnFileCall(req'[s].loc.reservationId) \in Issued(s)'
             /\ CardOnFileCall(req'[s].loc.reservationId) \notin Issued(s))
              => /\ req[s].pc = "savesetup"
                 /\ ledger' = LedgerSaveSetup(ledger, req[s].loc.reservationId,
                                              sis[req[s].loc.setupIntentId].customer,
                                              sis[req[s].loc.setupIntentId].payment_method,
                                              req[s].loc.connectedAccountId)]_vars

\* The webhook and the poll of one completed setup session have both sent
\* card_on_file, and the row holds the card.
C21_Witness ==
    /\ \E s \in Slots : req[s].kind = "webhook" /\ CardOnFileCall("R1") \in Issued(s)
    /\ \E s \in Slots : req[s].kind = "poll" /\ CardOnFileCall("R1") \in Issued(s)
    /\ ledger["R1"].payment_method_id = "pm_1"
\* The one Ledger call a verified notification of slot s must make when it
\* writes `status` for its reservation: setpreauth, or none without a Ledger.
OnlyWrites(s, status) ==
    IF gasUrl
    THEN req[s].calls = <<Call("ledger", "setpreauth", req[s].in.event.meta_rid, status)>>
    ELSE req[s].calls = <<>> /\ Done(s)

\* The setpreauth answer of slot s changes the Ledger only by giving its
\* reservation `status`.
LandsAs(s, status) ==
    (req[s].pc = "setpreauth" /\ req'[s].pc = "done" /\ ledger' # ledger)
      => ledger' = LedgerSetPreauth(ledger, req[s].in.event.meta_rid, status)

\* C22: a verified payment_intent.succeeded notification whose intent carries
\* reservation id R sends status captured for R in the immediate revision and
\* paid in the deferred one, whatever else the event holds; a verified
\* payment_intent.payment_failed sends failed in both; and the status that
\* lands in the Ledger is the one sent.
C22_SucceededAndFailedStatus ==
    /\ [](\A s \in Slots :
            /\ VerifiedIntentEvent(s, "payment_intent.succeeded")
                  => OnlyWrites(s, IF variant = "immediate" THEN "captured" ELSE "paid")
            /\ VerifiedIntentEvent(s, "payment_intent.payment_failed")
                  => OnlyWrites(s, "failed"))
    /\ [][\A s \in Slots :
            /\ VerifiedIntentEvent(s, "payment_intent.succeeded")
                  => LandsAs(s, IF variant = "immediate" THEN "captured" ELSE "paid")
            /\ VerifiedIntentEvent(s, "payment_intent.payment_failed")
                  => LandsAs(s, "failed")]_vars

\* In the deferred revision a succeeded notification has made R1 paid, and a
\* payment_failed notification is being handled after it.
C22_Witness ==
    /\ variant = "deferred" /\ ledger["R1"].status = "paid"
    /\ \E s \in Slots : VerifiedIntentEvent(s, "payment_intent.succeeded") /\ Done(s)
    /\ \E s \in Slots : /\ VerifiedIntentEvent(s, "payment_intent.payment_failed")
                         /\ Call("ledger", "setpreauth", "R1", "failed") \in Issued(s)
\* What C23 says of /release: released is sent for the reservation of the
\* intent, and only once the processor has canceled that intent; a request
\* answered 500 has sent nothing to the Ledger.
ReleaseWritesAfterCancel ==
    \A s \in Slots :
        req[s].kind = "release" =>
            /\ \A c \in StatusWrites(s) :
                  /\ req[s].resp.code = 200
                  /\ \E p \in pis : /\ p.id = req[s].in.payment_intent_id
                                     /\ p.status = "canceled"
                                     /\ c = Call("ledger", "setpreauth", p.rid, "released")
            /\ req[s].resp.code = 500 => req[s].calls \in
                  {<<Call("processor", "paymentIntents.cancel", "", req[s].in.payment_intent_id)>>}
            /\ (req[s].resp.code = 200 /\ gasUrl) => StatusWrites(s) # {}

\* C23 as stated: a verified payment_intent.canceled notification for R sends
\* status released for R in every variant, and /release sends released only
\* after the cancel succeeded.
C23_CanceledIsReleased ==
    /\ \A s \in Slots :
          VerifiedIntentEvent(s, "payment_intent.canceled") => OnlyWrites(s, "released")
    /\ ReleaseWritesAfterCancel

\* C23 amended: a verified payment_intent.canceled notification for R sends
\* status released for R in the immediate revision (and that is what lands),
\* and no call at all in the deferred revision, which has no case for the
\* event; /release sends released for the intent's reservation only once the
\* processor has canceled the intent, and a failed cancel is answered 500
\* with no Ledger call.
C23_CanceledIsReleasedImmediate ==
    /\ [](/\ \A s \in Slots :
              VerifiedIntentEvent(s, "payment_intent.canceled")
                => IF variant = "immediate" THEN OnlyWrites(s, "released")
                   ELSE req[s].calls = <<>> /\ Done(s)
          /\ ReleaseWritesAfterCancel)
    /\ [][\A s \in Slots :
            VerifiedIntentEvent(s, "payment_intent.canceled") => LandsAs(s, "released")]_vars

\* /release has canceled the intent of R1 and its released write has landed;
\* in the immediate revision a canceled notification for R1 has then sent
\* released once more.
C23_Witness ==
    /\ variant = "immediate" /\ ledger["R1"].status = "released"
    /\ \E p \in pis : p.status = "canceled"
    /\ \E s \in Slots : /\ VerifiedIntentEvent(s, "payment_intent.canceled")
                         /\ Call("ledger", "setpreauth", "R1", "released") \in Issued(s)
\* Slot s is a notification, poll, capture or release whose status write is
\* in flight; the status it sent; the step in which that write lands.
WriteInFlight(s) ==
    /\ req[s].kind \in {"webhook", "poll", "capture", "release"}
    /\ req[s].pc \in {"setpreauth", "attachpi"}
SentStatus(s) ==
    IF req[s].pc = "attachpi" THEN AttachStatus(req[s].loc.status) ELSE req[s].loc.status
WriteLands(s) ==
    /\ \/ WebhookSetPreauth(s) \/ WebhookAttachPI(s)
       \/ PollSetPreauth(s) \/ PollAttachPI(s)
       \/ SettleSetPreauth(s)
    /\ ledger'[req[s].loc.reservationId].status = SentStatus(s)

LaterStatuses == {"captured", "paid", "released"}
EarlierStatuses == {"requires_capture", "authorized", "card_on_file"}

\* C24: notifications, polls, /capture and /release never read the Ledger
\* before they write a status, and whatever status the reservation has when
\* such a write is in flight, the write can land and leave the status it
\* carries: also an earlier one over captured, paid or released.
C24_WritesAreUnconditional ==
    \A s \in Slots :
        /\ req[s].kind \in {"webhook", "poll", "capture", "release"}
              => \A c \in Issued(s) : c.sys = "ledger" => c.op \in LedgerWrites
        /\ WriteInFlight(s) => ENABLED WriteLands(s)

\* R1 is captured, paid or released in the Ledger and a notification or a
\* poll has a write of requires_capture, authorized or card_on_file for R1
\* in flight, which can land.
C24_Witness ==
    \E s \in Slots :
        /\ req[s].kind \in {"webhook", "poll"} /\ WriteInFlight(s)
        /\ req[s].loc.reservationId = "R1"
        /\ ledger["R1"].status \in LaterStatuses
        /\ SentStatus(s) \in EarlierStatuses
        /\ ENABLED WriteLands(s)
\* The accounts created for location l.
AccountsOf(l) == {a \in accounts : a.location = l}

\* C25: /connect/get-paid checks and then creates without a lock. A request
\* that read "no account" creates one whatever accounts exist by then for
\* the location or are cached for it, so two overlapping requests for a
\* location both create one; each setacct write that lands replaces the
\* cached id, so the last one stays; and a setacct write that is answered
\* non-2xx caches nothing while the request goes on to return its link, so
\* that the next request creates another account.
C25_CheckThenCreate ==
    \A s \in Slots :
        /\ (req[s].kind = "getpaid" /\ req[s].pc = "create_account" /\ nextId <= MaxObjects)
              => ENABLED (GetPaidCreateAccount(s)
                            /\ Cardinality(accounts') = Cardinality(accounts) + 1)
        /\ (req[s].kind = "getpaid" /\ req[s].pc = "setacct")
              => /\ ENABLED (GetPaidSetAcct(s)
                               /\ ledgerAcct'[req[s].in.location] = req[s].loc.accountId)
                 /\ ENABLED (GetPaidSetAcct(s) /\ ledgerAcct' = ledgerAcct
                               /\ req'[s].pc = "retrieve")

\* Two requests for Pier7, which had no account cached, have each created an
\* account and both setacct writes are in flight.
C25_Witness ==
    /\ \A s \in Slots : /\ req[s].kind = "getpaid" /\ req[s].pc = "setacct"
                         /\ req[s].in.location = "Pier7" /\ req[s].loc.known = ""
    /\ Cardinality(AccountsOf("Pier7")) = 2
    /\ req["h1"].loc.accountId # req["h2"].loc.accountId
\* C26: findOrCreateCustomerByEmail lists and then creates. When the list
\* answers and a customer with the email exists, the request goes on with one
\* of them and creates none; it asks for a new customer only when the list
\* held none. The creation itself looks at nothing: a request that found
\* none creates a customer even if another request has created one for the
\* same email in the meantime.
C26_FindOrCreateNotAtomic ==
    /\ [][\A s \in Slots :
            (req[s].kind = "setup" /\ req[s].pc = "list_customers")
              => /\ req'[s].pc = "create_customer"
                      => ~ \E c \in customers : c.email = req[s].in.email
                 /\ req'[s].pc = "create_session"
                      => /\ customers' = customers
                         /\ \E c \in customers : /\ c.email = req[s].in.email
                                                  /\ c.id = req'[s].loc.customer]_vars
    /\ [](\A s \in Slots :
            (req[s].kind = "setup" /\ req[s].pc = "create_customer" /\ nextId <= MaxObjects)
              => ENABLED (CreateCustomer(s)
                            /\ Cardinality(customers') = Cardinality(customers) + 1))

\* Two overlapping requests for the same email, one for R1 and one without a
\* reservation id, have each created a customer.
C26_Witness ==
    /\ \A s \in Slots : /\ req[s].kind = "setup" /\ req[s].pc = "create_session"
                         /\ req[s].in.email = "a@x"
    /\ req["h1"].in.reservation_id # req["h2"].in.reservation_id
    /\ req["h1"].loc.customer # req["h2"].loc.customer
    /\ Cardinality({c \in customers : c.email = "a@x"}) = 2
\* The row of an empty Ledger after one delivery of event ev whose writes
\* all landed, and after its savesetup write alone.
DeliveredRow(ev) ==
    LET loc == Dispatch(ev)
    IN  IF loc.setupIntentId # ""
        THEN [EmptyRow EXCEPT !.status = "card_on_file",
                              !.customer_id = Or(sis[loc.setupIntentId].customer,
                                                 Or(ev.customer, ev.client_reference_id)),
                              !.payment_method_id = sis[loc.setupIntentId].payment_method,
                              !.account_id = ev.meta_acct]
        ELSE IF loc.piId # 0
        THEN [EmptyRow EXCEPT !.status = loc.status, !.payment_intent_id = loc.piId]
        ELSE [EmptyRow EXCEPT !.status = loc.status]
SavedRow(ev) == [DeliveredRow(ev) EXCEPT !.status = "none"]

\* Slot h1 holds a verified delivery that the switch correlates to a
\* reservation.
Delivery ==
    /\ req["h1"].kind = "webhook" /\ webhookSecret /\ req["h1"].in.sig = "valid"
    /\ Dispatch(req["h1"].in.event).reservationId # ""

\* C27: on a Ledger that nothing else writes, the row of the reservation is
\* empty, or holds the stored card only, or is as one complete delivery of
\* the notification leaves it; and once it is as one complete delivery
\* leaves it, no redelivery of the same notification changes the Ledger.
C27_RedeliveryChangesNothing ==
    /\ [](Delivery =>
            LET ev == req["h1"].in.event
                rid == Dispatch(ev).reservationId
            IN  /\ ledger[rid] \in {EmptyRow, SavedRow(ev), DeliveredRow(ev)}
                /\ \A r \in Rids \ {rid} : ledger[r] = EmptyRow)
    /\ [][(Delivery /\ ledger[Dispatch(req["h1"].in.event).reservationId]
                         = DeliveredRow(req["h1"].in.event))
              => ledger' = ledger]_vars

\* The first delivery of a setup session's notification has left the row
\* complete, and the second delivery has had its savesetup write answered
\* and its status write is in flight.
C27_Witness ==
    /\ Delivery /\ started = 2 /\ req["h1"].pc = "setpreauth"
    /\ Len(req["h1"].calls) = 3
    /\ ledger[Dispatch(req["h1"].in.event).reservationId] = DeliveredRow(req["h1"].in.event)
\* The successful charges of reservation r.
ChargesOf(r) == {p \in pis : p.rid = r /\ p.status = "succeeded"}

\* C28: the successful charges of a reservation are never more than the
\* distinct clamped amounts charged for it; two /approve calls answered
\* succeeded whose raw amounts differ but clamp to the same value name the
\* same payment intent; and a call at a clamped amount that has no intent yet
\* can create a successful charge whatever status the reservation has in the
\* Ledger, paid included.
C28_ChargePerClampedAmount ==
    /\ \A r \in Rids :
          Cardinality(ChargesOf(r)) <= Cardinality({p.amount : p \in {q \in pis : q.rid = r}})
    /\ \A s, t \in Slots :
          (/\ req[s].kind = "approve" /\ req[t].kind = "approve"
           /\ req[s].resp.status = "succeeded" /\ req[t].resp.status = "succeeded"
           /\ req[s].in.reservation_id = req[t].in.reservation_id
           /\ ClampAmount(req[s].in.amount_cents) = ClampAmount(req[t].in.amount_cents))
            => req[s].resp.pi = req[t].resp.pi
    /\ \A s \in Slots :
          (/\ req[s].kind = "approve" /\ req[s].pc = "charge" /\ nextId <= MaxObjects
           /\ <<"approve", req[s].in.reservation_id, req[s].loc.amount>> \notin DOMAIN idem)
            => ENABLED (/\ ApproveCharge(s)
                        /\ Cardinality(ChargesOf(req[s].in.reservation_id)')
                             = Cardinality(ChargesOf(req[s].in.reservation_id)) + 1)

\* R1 is paid in the Ledger after an /approve charged it 50, and an /approve
\* at 60 has charged it a second time, its own status write still in flight.
C28_Witness ==
    /\ ledger["R1"].status = "paid"
    /\ Cardinality(ChargesOf("R1")) = 2
    /\ \E s \in Slots : /\ req[s].kind = "approve" /\ req[s].pc = "write_paid"
                         /\ req[s].loc.amount = 60
    /\ \E s \in Slots : /\ req[s].kind = "approve" /\ req[s].resp.status = "succeeded"
                         /\ req[s].loc.amount = 50
====
